---------------------------- MODULE Spec2Model ----------------------------
(***************************************************************************)
(* The search_resources request handler of the gem5 resources API          *)
(* (functions/search_resources.py) with the helpers it calls from          *)
(* shared/utils.py: parameter sanitisation, pagination and filter          *)
(* validation, the single backend query, consolidation of versions         *)
(* (keep_latest_versions), ranking (apply_sorting) and pagination.         *)
(*                                                                         *)
(* Python strings are sequences of one-character strings, so that strip,   *)
(* split, int() and the regular expressions are computed, not assumed.     *)
(* A dict is a function whose DOMAIN is its key set.  Relevance scores     *)
(* (floats in the program) are integers.                                   *)
(***************************************************************************)
EXTENDS Integers, Sequences, FiniteSets, TLC

\* ------------------------------------------------------------------ bounds

\* Longest candidate sequence the search backend returns in the model.
MaxCandidates == 3
\* Number of follow-up requests a client makes for the next page.
MaxFollowUps == 2
MaxTermLen == 2

\* ------------------------------------------------------- program constants

DefaultPage == 1
DefaultPageSize == 10
MaxPageSize == 100
MaxIdLen == 100
MaxMustIncludeLen == 500

\* ------------------------------------------------------------- characters

Digits == {"0", "1", "2", "3", "4", "5", "6", "7", "8", "9"}
LowerLetters ==
    {"a", "b", "c", "d", "e", "f", "g", "h", "i", "j", "k", "l", "m", "n", "o",
     "p", "q", "r", "s", "t", "u", "v", "w", "x", "y", "z"}
UpperLetters ==
    {"A", "B", "C", "D", "E", "F", "G", "H", "I", "J", "K", "L", "M", "N", "O",
     "P", "Q", "R", "S", "T", "U", "V", "W", "X", "Y", "Z"}
WhiteSpace == {" "}

\* The printable ASCII characters in code point order, from 32 (space); the
\* grave accent, which a TLA+ string cannot hold, is spelled out.
AsciiTable ==
    <<" ", "!", "\"", "#", "$", "%", "&", "'", "(", ")", "*", "+", ",", "-", ".",
      "/", "0", "1", "2", "3", "4", "5", "6", "7", "8", "9", ":", ";", "<", "=",
      ">", "?", "@", "A", "B", "C", "D", "E", "F", "G", "H", "I", "J", "K", "L",
      "M", "N", "O", "P", "Q", "R", "S", "T", "U", "V", "W", "X", "Y", "Z", "[",
      "\\", "]", "^", "_", "grave", "a", "b", "c", "d", "e", "f", "g", "h", "i", "j",
      "k", "l", "m", "n", "o", "p", "q", "r", "s", "t", "u", "v", "w", "x", "y",
      "z", "{", "|", "}", "~">>

CodeTable ==
    [c \in {AsciiTable[i] : i \in 1..Len(AsciiTable)} |->
        31 + CHOOSE i \in 1..Len(AsciiTable) : AsciiTable[i] = c]

\* Code point of a character (ord): the order Python compares strings by.
Code(c) == CodeTable[c]

\* str.lower() on one character.
LowerChar(c) == IF c \in UpperLetters THEN AsciiTable[Code(c) + 32 - 31] ELSE c

\* str.lower()
Lower(s) == [i \in 1..Len(s) |-> LowerChar(s[i])]

\* The regular expression class \w restricted to the model's characters.
IsWordChar(c) == c \in Digits \cup LowerLetters \cup UpperLetters \cup {"_"}

\* a < b for two Python strings: lexicographic by code point.
RECURSIVE StrLess(_, _)
StrLess(a, b) ==
    IF b = <<>> THEN FALSE
    ELSE IF a = <<>> THEN TRUE
    ELSE IF Code(a[1]) # Code(b[1]) THEN Code(a[1]) < Code(b[1])
    ELSE StrLess(Tail(a), Tail(b))

\* a < b for two Python tuples of integers.
RECURSIVE TupleLess(_, _)
TupleLess(a, b) ==
    IF b = <<>> THEN FALSE
    ELSE IF a = <<>> THEN TRUE
    ELSE IF a[1] # b[1] THEN a[1] < b[1]
    ELSE TupleLess(Tail(a), Tail(b))

\* str.strip(): leading and trailing whitespace removed.
RECURSIVE LStrip(_)
LStrip(s) == IF s # <<>> /\ s[1] \in WhiteSpace THEN LStrip(Tail(s)) ELSE s

RECURSIVE RStrip(_)
RStrip(s) ==
    IF s # <<>> /\ s[Len(s)] \in WhiteSpace
    THEN RStrip(SubSeq(s, 1, Len(s) - 1))
    ELSE s

Strip(s) == RStrip(LStrip(s))

\* str.split(sep) for a one-character separator: always at least one part.
RECURSIVE Split(_, _)
Split(s, sep) ==
    IF \A i \in 1..Len(s) : s[i] # sep THEN <<s>>
    ELSE LET k == CHOOSE i \in 1..Len(s) :
                      s[i] = sep /\ \A j \in 1..(i - 1) : s[j] # sep
         IN <<SubSeq(s, 1, k - 1)>> \o Split(SubSeq(s, k + 1, Len(s)), sep)

\* s[:n]
Prefix(s, n) == SubSeq(s, 1, IF Len(s) < n THEN Len(s) ELSE n)

\* ------------------------------------------------------------------ dicts

\* dict.get(k, default)
Get(d, k, default) == IF k \in DOMAIN d THEN d[k] ELSE default

\* d[k] = v
Put(d, k, v) == [x \in (DOMAIN d) \cup {k} |-> IF x = k THEN v ELSE d[x]]

\* d.pop(k, None)
Pop(d, k) == [x \in (DOMAIN d) \ {k} |-> d[x]]

\* ------------------------------------------------------------------ int()

DigitValue(c) == Code(c) - 48

RECURSIVE DigitsValue(_)
DigitsValue(s) ==
    IF s = <<>> THEN 0
    ELSE 10 * DigitsValue(SubSeq(s, 1, Len(s) - 1)) + DigitValue(s[Len(s)])

\* The string that int() reads after stripping whitespace: sign and digits.
IntBody(s) ==
    LET t == Strip(s)
    IN IF t # <<>> /\ t[1] \in {"+", "-"} THEN Tail(t) ELSE t

\* int(s) does not raise ValueError.
IsIntStr(s) ==
    LET b == IntBody(s) IN b # <<>> /\ \A i \in 1..Len(b) : b[i] \in Digits

\* int(s), for a string int() accepts.
IntOf(s) ==
    LET t == Strip(s)
    IN IF t[1] = "-" THEN 0 - DigitsValue(IntBody(s)) ELSE DigitsValue(IntBody(s))

\* --------------------------------------------------------- parse_version

\* A value that is no str stands as the one-element sequence of the name of
\* its type; a str is a sequence of characters.
NotAStr(v) == Len(v) = 1 /\ v[1] \in {"int", "NoneType"}

\* parse_version: the tuple of the dot-separated integers, (0, 0, 0) when a
\* part is no integer (ValueError) or the value is no str (AttributeError).
parse_version(version_str) ==
    LET parts == Split(version_str, ".")
    IN IF NotAStr(version_str) THEN <<0, 0, 0>>
       ELSE IF \A i \in 1..Len(parts) : IsIntStr(parts[i])
       THEN [i \in 1..Len(parts) |-> IntOf(parts[i])]
       ELSE <<0, 0, 0>>


\* --------------------------------------------------- keep_latest_versions

EmptyDict == [k \in {} |-> k]

\* The accumulators before the loop: latest_by_id, max_score_by_id, and the
\* insertion order of latest_by_id's keys.
KLVStart == [order |-> <<>>, latest_by_id |-> EmptyDict, max_score_by_id |-> EmptyDict]

\* Mutant of MaxOf: the score seen last wins.
MaxOf_Last(a, b) == b

\* max(a, b) on scores
MaxOf(a, b) == IF b > a THEN b ELSE a

\* Mutant of ReplacesExisting: the version strings compared as strings.
ReplacesExisting_AsStrings(doc, existing) ==
    StrLess(Get(existing, "resource_version", <<"0", ".", "0", ".", "0">>),
            Get(doc, "resource_version", <<"0", ".", "0", ".", "0">>))

\* Mutant of ReplacesExisting: a candidate of equal version replaces too.
ReplacesExisting_OnTies(doc, existing) ==
    ~TupleLess(parse_version(Get(doc, "resource_version", <<"0", ".", "0", ".", "0">>)),
               parse_version(Get(existing, "resource_version", <<"0", ".", "0", ".", "0">>)))

\* The test that replaces the running representative by doc.
ReplacesExisting(doc, existing) ==
    TupleLess(parse_version(Get(existing, "resource_version", <<"0", ".", "0", ".", "0">>)),
              parse_version(Get(doc, "resource_version", <<"0", ".", "0", ".", "0">>)))

\* One iteration of the loop over results.  A missing id and the empty id
\* are both falsy: the document is skipped.
KLVStep(acc, doc) ==
    LET resource_id == Get(doc, "id", <<>>)
        current_score == Get(doc, "score", 0)
        seen == resource_id \in DOMAIN acc.latest_by_id
    IN IF resource_id = <<>> THEN acc
       ELSE [order |-> IF seen THEN acc.order ELSE Append(acc.order, resource_id),
             max_score_by_id |->
                 IF resource_id \notin DOMAIN acc.max_score_by_id
                 THEN Put(acc.max_score_by_id, resource_id, current_score)
                 ELSE Put(acc.max_score_by_id, resource_id,
                          MaxOf(acc.max_score_by_id[resource_id], current_score)),
             latest_by_id |->
                 IF ~seen THEN Put(acc.latest_by_id, resource_id, doc)
                 ELSE IF ReplacesExisting(doc, acc.latest_by_id[resource_id])
                      THEN Put(acc.latest_by_id, resource_id, doc)
                      ELSE acc.latest_by_id]

\* Mutant of keep_latest_versions: every document with an id is kept.
keep_latest_versions_NoDedup(results) ==
    SelectSeq(results, LAMBDA doc : Get(doc, "id", <<>>) # <<>>)

RECURSIVE KLVLoop(_, _)
KLVLoop(results, acc) ==
    IF results = <<>> THEN acc
    ELSE KLVLoop(Tail(results), KLVStep(acc, Head(results)))

\* keep_latest_versions: one document per id, in the order the ids were
\* first seen, each with its id's maximum score written into it.
keep_latest_versions(results) ==
    LET acc == KLVLoop(results, KLVStart)
    IN [i \in 1..Len(acc.order) |->
           Put(acc.latest_by_id[acc.order[i]], "score",
               Get(acc.max_score_by_id, acc.order[i], 0))]

\* ------------------------------------------------------------ apply_sorting

\* A Python value that is either a string or a list of strings.
PyStr(s) == [kind |-> "str", val |-> s]
PyList(l) == [kind |-> "list", val |-> l]
IsStr(v, s) == v.kind = "str" /\ v.val = s

\* Mutant of DateKey: no default, None for a document without date.
DateKey_NoDefault(x) == Get(x, "date", <<"NoneType">>)

DateKey(x) == Get(x, "date", <<>>)

\* Mutant of IdKey: the id compared without case folding.
IdKey_NoLower(x) == Get(x, "id", <<>>)

IdKey(x) == Lower(Get(x, "id", <<>>))
ScoreKey(x) == Get(x, "score", 0)

\* max(list_of_strings, default="0")
RECURSIVE MaxStr(_)
MaxStr(l) ==
    IF l = <<>> THEN <<"0">>
    ELSE IF Len(l) = 1 THEN l[1]
    ELSE LET m == MaxStr(Tail(l)) IN IF StrLess(l[1], m) THEN m ELSE l[1]

VersionKey(x) == MaxStr(Get(x, "gem5_versions", <<<<"0">>>>))

\* Mutant of Precedes: the default policy leaves the order as it is.
Precedes_DefaultUnsorted(sort_param, a, b) ==
    IF IsStr(sort_param, "date") THEN StrLess(DateKey(b), DateKey(a))
    ELSE IF IsStr(sort_param, "name") \/ IsStr(sort_param, "id_asc")
         THEN StrLess(IdKey(a), IdKey(b))
    ELSE IF IsStr(sort_param, "id_desc") THEN StrLess(IdKey(b), IdKey(a))
    ELSE IF IsStr(sort_param, "version") THEN StrLess(VersionKey(b), VersionKey(a))
    ELSE FALSE

\* a's key is strictly before b's in the order the policy sorts by.
Precedes(sort_param, a, b) ==
    IF IsStr(sort_param, "date") THEN StrLess(DateKey(b), DateKey(a))
    ELSE IF IsStr(sort_param, "name") \/ IsStr(sort_param, "id_asc")
         THEN StrLess(IdKey(a), IdKey(b))
    ELSE IF IsStr(sort_param, "id_desc") THEN StrLess(IdKey(b), IdKey(a))
    ELSE IF IsStr(sort_param, "version") THEN StrLess(VersionKey(b), VersionKey(a))
    ELSE ScoreKey(b) < ScoreKey(a)

\* Mutant of InsertSorted: x placed before the elements of equal key.
RECURSIVE InsertSorted_TiesReversed(_, _, _)
InsertSorted_TiesReversed(sort_param, s, x) ==
    IF s = <<>> THEN <<x>>
    ELSE IF ~Precedes(sort_param, Head(s), x) THEN <<x>> \o s
    ELSE <<Head(s)>> \o InsertSorted_TiesReversed(sort_param, Tail(s), x)

\* x placed into an ordered sequence after every element it does not
\* strictly precede: sorted() is stable, also with reverse=True.
RECURSIVE InsertSorted(_, _, _)
InsertSorted(sort_param, s, x) ==
    IF s = <<>> THEN <<x>>
    ELSE IF Precedes(sort_param, x, Head(s)) THEN <<x>> \o s
    ELSE <<Head(s)>> \o InsertSorted(sort_param, Tail(s), x)

RECURSIVE SortLoop(_, _, _)
SortLoop(sort_param, todo, done) ==
    IF todo = <<>> THEN done
    ELSE SortLoop(sort_param, Tail(todo), InsertSorted(sort_param, done, Head(todo)))

apply_sorting(results, sort_param) == SortLoop(sort_param, results, <<>>)

\* sorted() raises: a key that is no str is compared (TypeError), or lower()
\* is called on an id that is no str (AttributeError).  The keys of the
\* version and default policies are strings and numbers by construction.
SortRaises(results, sort_param) ==
    IF IsStr(sort_param, "date")
    THEN Len(results) >= 2 /\ \E i \in 1..Len(results) : NotAStr(DateKey(results[i]))
    ELSE IF IsStr(sort_param, "name") \/ IsStr(sort_param, "id_asc")
            \/ IsStr(sort_param, "id_desc")
    THEN \E i \in 1..Len(results) : NotAStr(Get(results[i], "id", <<>>))
    ELSE FALSE

\* ------------------------------------------------------------- sanitisers

\* The class [\w,;\-\.] of sanitize_must_include.
MustIncludeChar(c) == IsWordChar(c) \/ c \in {",", ";", "-", "."}

\* sanitize_must_include, for a string argument: strip, re.sub of every
\* character outside the class by "", and the cut to 500 characters.
sanitize_must_include(value) ==
    Prefix(SelectSeq(Strip(value), MustIncludeChar), MaxMustIncludeLen)

\* The class [\w\-\.] of sanitize_id.
IdChar(c) == IsWordChar(c) \/ c \in {"-", "."}

\* Mutant of MatchesIdPattern: the pattern without its upper length.
MatchesIdPattern_NoLengthLimit(value) ==
    /\ Len(value) >= 1
    /\ \A i \in 1..Len(value) : IdChar(value[i])

\* re.match(r"^[\w\-\.]{1,100}$", value)
MatchesIdPattern(value) ==
    /\ Len(value) >= 1
    /\ Len(value) <= MaxIdLen
    /\ \A i \in 1..Len(value) : IdChar(value[i])

\* The result None of sanitize_id.
None == [kind |-> "none"]

\* sanitize_id, for a string argument: the stripped value, or None.
sanitize_id(value) ==
    IF MatchesIdPattern(Strip(value)) THEN PyStr(Strip(value)) ELSE None

\* The punctuation sanitize_contains_str keeps, besides \w and \s.
ContainsPunct ==
    {"-", ".", ",", ":", ";", "!", "?", "@", "#", "%", "&", "(", ")", "[", "]",
     "{", "}", "<", ">", "/", "\\", "=", "+", "*", "'", "\""}

ContainsChar(c) == IsWordChar(c) \/ c \in WhiteSpace \/ c \in ContainsPunct

MaxContainsLen == 200

\* sanitize_contains_str, for a string argument.
sanitize_contains_str(value) ==
    Prefix(SelectSeq(Strip(value), ContainsChar), MaxContainsLen)

\* ---------------------------------------------------------- the handler

VARIABLES
    pc,                \* where the handler stands in the current request
    params,            \* req.params: the query parameters given
    index,             \* what the search backend returns for this query
    contains_str,
    must_include,
    sort_param,
    page,
    page_size,
    query_object,
    odata_filter,      \* the filter expression given to the backend, or None
    search_text,       \* the query text given to the backend
    query_type,        \* "simple" or "full"
    all_results,
    unique_resources,
    sorted_resources,
    response,          \* the HTTP response, status 0 while there is none
    backend_calls,     \* calls of search_client.search in this request
    raised,            \* the backend call raised an exception
    history,           \* the client's earlier responses in this exchange
    collection,        \* the resource store that list_all_resources reads
    gem5_version,      \* list_all_resources: the version asked for
    prefixes,          \* list_all_resources: the version prefixes queried
    term,              \* the string given to escape_lucene_query
    escaped_term       \* what escape_lucene_query returned for it

\* What search_resources builds for the backend.
query_vars == <<odata_filter, search_text, query_type>>

\* The store and the locals of list_all_resources.
list_vars == <<collection, gem5_version, prefixes>>

\* A call of escape_lucene_query on its own.
escape_vars == <<term, escaped_term>>

vars == <<pc, params, index, contains_str, must_include, sort_param, page,
          page_size, query_object, all_results, unique_resources,
          sorted_resources, response, backend_calls, raised, history,
          query_vars, list_vars, escape_vars>>

NoResponse == [status |-> 0, body |-> EmptyDict]

\* create_error_response
create_error_response(status_code, message) ==
    [status |-> status_code, body |-> [error |-> message]]

KeyQuery == <<"q", "u", "e", "r", "y">>
KeySort == <<"s", "o", "r", "t">>

\* The handler's locals before it has run.
Locals ==
    /\ contains_str = <<>>
    /\ must_include = <<>>
    /\ sort_param = None
    /\ page = 0
    /\ page_size = 0
    /\ query_object = EmptyDict
    /\ odata_filter = None
    /\ search_text = <<>>
    /\ query_type = ""
    /\ all_results = <<>>
    /\ unique_resources = <<>>
    /\ sorted_resources = <<>>
    /\ response = NoResponse
    /\ backend_calls = 0
    /\ raised = FALSE

LocalsReset ==
    /\ contains_str' = <<>>
    /\ must_include' = <<>>
    /\ sort_param' = None
    /\ page' = 0
    /\ page_size' = 0
    /\ query_object' = EmptyDict
    /\ odata_filter' = None
    /\ search_text' = <<>>
    /\ query_type' = ""
    /\ all_results' = <<>>
    /\ unique_resources' = <<>>
    /\ sorted_resources' = <<>>
    /\ response' = NoResponse
    /\ backend_calls' = 0
    /\ raised' = FALSE
    /\ UNCHANGED <<list_vars, escape_vars>>

Init ==
    /\ pc = "idle"
    /\ params = EmptyDict
    /\ index = <<>>
    /\ history = <<>>
    /\ Locals
    /\ collection = <<>>
    /\ gem5_version = None
    /\ prefixes = <<>>
    /\ term = <<>>
    /\ escaped_term = <<>>

\* A request arrives; the backend holds some candidate sequence for it.
Receive(ParamSets, Indexes) ==
    /\ pc = "idle"
    /\ params' \in ParamSets
    /\ index' \in Indexes
    /\ history' = <<>>
    /\ LocalsReset
    /\ pc' = "params"

\* The sort token after lines 48-55: None or "" stay, a known token stays, any
\* other becomes "default".
SortToken(raw) ==
    IF raw = None \/ raw.val = "" THEN raw
    ELSE IF raw.val \in {"date", "name", "version", "id_asc", "id_desc"} THEN raw
    ELSE PyStr("default")

\* Lines 37-55: the sanitised parameters.
ReadParams ==
    /\ pc = "params"
    /\ contains_str' = sanitize_contains_str(Strip(Get(params, "contains-str", <<>>)))
    /\ must_include' = sanitize_must_include(Get(params, "must-include", <<>>))
    /\ sort_param' = SortToken(IF "sort" \in DOMAIN params THEN PyStr(params["sort"]) ELSE None)
    /\ pc' = "pagination"
    /\ UNCHANGED <<params, index, page, page_size, query_object, all_results,
                   unique_resources, sorted_resources, response, backend_calls,
                   raised, history, query_vars,
                   list_vars, escape_vars>>

\* int(req.params.get(name, default)) raises ValueError.
ParamNotInt(name) == name \in DOMAIN params /\ ~IsIntStr(params[name])

\* int(req.params.get(name, default))
ParamInt(name, default) ==
    IF name \in DOMAIN params THEN IntOf(params[name]) ELSE default

\* The page test of line 61.
PageTooSmall(p) == p < 1

\* Mutant of PageSizeOutOfRange: the upper bound excluded.
PageSizeOutOfRange_Exclusive(ps) == ps < 1 \/ ps >= MaxPageSize

\* The page-size test of line 65.
PageSizeOutOfRange(ps) == ps < 1 \/ ps > MaxPageSize

\* Lines 57-73: the pagination parameters, or the 400 response.
PaginationError ==
    IF ParamNotInt("page") \/ ParamNotInt("page-size")
    THEN "Invalid pagination parameters"
    ELSE IF PageTooSmall(ParamInt("page", DefaultPage))
    THEN "Invalid pagination parameters: page must be >=1."
    ELSE IF PageSizeOutOfRange(ParamInt("page-size", DefaultPageSize))
    THEN "Invalid pagination parameters: page-size must be between 1 and 100."
    ELSE ""

ValidatePagination ==
    /\ pc = "pagination"
    /\ IF PaginationError # ""
       THEN /\ response' = create_error_response(400, PaginationError)
            /\ pc' = "done"
            /\ UNCHANGED <<page, page_size>>
       ELSE /\ page' = ParamInt("page", DefaultPage)
            /\ page_size' = ParamInt("page-size", DefaultPageSize)
            /\ pc' = "filters"
            /\ UNCHANGED response
    /\ UNCHANGED <<params, index, contains_str, must_include, sort_param,
                   query_object, all_results, unique_resources, sorted_resources,
                   backend_calls, raised, history, query_vars,
                   list_vars, escape_vars>>

\* [sanitize_id(v) for v in parts[1:]]
SanitizedValues(parts) == [i \in 1..(Len(parts) - 1) |-> sanitize_id(parts[i + 1])]

\* all(values): no value is None (a sanitised value is never empty).
AllValues(values) == \A i \in 1..Len(values) : values[i] # None

\* Mutant of TooFewParts: a clause of one token passes.
TooFewParts_OneIsEnough(parts) == Len(parts) < 1

\* The test of line 87 on the comma-separated parts of a clause.
TooFewParts(parts) == Len(parts) < 2

\* Lines 83-99: the loop over the clauses, from the clause list `groups` and
\* the query object so far, to the error message ("" for none) and the query
\* object.
RECURSIVE FilterLoop(_, _)
FilterLoop(groups, qo) ==
    IF groups = <<>> THEN [error |-> "", query_object |-> qo]
    ELSE LET group == Head(groups)
             parts == Split(group, ",")
             values == SanitizedValues(parts)
         IN IF group = <<>> THEN FilterLoop(Tail(groups), qo)
            ELSE IF TooFewParts(parts)
            THEN [error |-> "Invalid filter format", query_object |-> qo]
            ELSE IF ~AllValues(values)
            THEN [error |-> "Invalid filter value format", query_object |-> qo]
            ELSE FilterLoop(Tail(groups),
                            Put(qo, parts[1],
                                PyList([i \in 1..Len(values) |-> values[i].val])))

\* Lines 75-78: the query object before the filter clauses.
QueryObjectStart ==
    Put(Put(EmptyDict, KeyQuery, PyStr(contains_str)), KeySort,
        IF sort_param = None \/ sort_param.val = "" THEN PyStr("default")
        ELSE sort_param)

\* Mutant of ParseFilters: the backend is queried before the filter clauses
\* are parsed.
ParseFilters_AfterSearch ==
    /\ pc = "filters"
    /\ backend_calls' = backend_calls + 1
    /\ LET r == IF must_include = <<>>
                THEN [error |-> "", query_object |-> QueryObjectStart]
                ELSE FilterLoop(Split(must_include, ";"), QueryObjectStart)
       IN IF r.error # ""
          THEN /\ response' = create_error_response(400, r.error)
               /\ pc' = "done"
               /\ UNCHANGED query_object
          ELSE /\ query_object' = r.query_object
               /\ pc' = "consolidate"
               /\ UNCHANGED response
    /\ UNCHANGED <<params, index, contains_str, must_include, sort_param, page,
                   page_size, all_results, unique_resources, sorted_resources,
                   raised, history, query_vars,
                   list_vars, escape_vars>>

\* Lines 75-102: the query object, or the 400 response.
ParseFilters ==
    /\ pc = "filters"
    /\ LET r == IF must_include = <<>>
                THEN [error |-> "", query_object |-> QueryObjectStart]
                ELSE FilterLoop(Split(must_include, ";"), QueryObjectStart)
       IN IF r.error # ""
          THEN /\ response' = create_error_response(400, r.error)
               /\ pc' = "done"
               /\ UNCHANGED query_object
          ELSE /\ query_object' = r.query_object
               /\ pc' = "query"
               /\ UNCHANGED response
    /\ UNCHANGED <<params, index, contains_str, must_include, sort_param, page,
                   page_size, all_results, unique_resources, sorted_resources,
                   backend_calls, raised, history, query_vars,
                   list_vars, escape_vars>>

\* sep.join(parts)
RECURSIVE Join(_, _)
Join(parts, sep) ==
    IF parts = <<>> THEN <<>>
    ELSE IF Len(parts) = 1 THEN parts[1]
    ELSE parts[1] \o sep \o Join(Tail(parts), sep)

\* str.split() with no separator: the maximal runs of characters that are
\* not whitespace, none of them empty.
RECURSIVE Words(_)
Words(s) ==
    LET t == LStrip(s)
        k == IF \A i \in 1..Len(t) : t[i] \notin WhiteSpace THEN Len(t) + 1
             ELSE CHOOSE i \in 1..Len(t) :
                      t[i] \in WhiteSpace /\ \A j \in 1..(i - 1) : t[j] \notin WhiteSpace
    IN IF t = <<>> THEN <<>>
       ELSE <<SubSeq(t, 1, k - 1)>> \o Words(SubSeq(t, k, Len(t)))

\* str.replace(char, repl) for a pattern of one character
RECURSIVE Replace(_, _, _)
Replace(s, char, repl) ==
    IF s = <<>> THEN <<>>
    ELSE (IF Head(s) = char THEN repl ELSE <<Head(s)>>) \o Replace(Tail(s), char, repl)

\* Mutant of special_chars: the backslash escaped last, not first.
special_chars_BackslashLast ==
    <<"+", "-", "&", "|", "!", "(", ")", "{", "}", "[", "]", "^", "~", "*", "?",
      ":", "/", "\\">>

\* Lines 216-235: the characters escaped, in the order they are replaced.
special_chars ==
    <<"\\", "+", "-", "&", "|", "!", "(", ")", "{", "}", "[", "]", "^", "~", "*",
      "?", ":", "/">>

\* Lines 237-239: one replace per special character, in order.
RECURSIVE EscapeLoop(_, _)
EscapeLoop(escaped, chars) ==
    IF chars = <<>> THEN escaped
    ELSE EscapeLoop(Replace(escaped, Head(chars), <<"\\", Head(chars)>>), Tail(chars))

\* escape_lucene_query: the special characters, then the double quote.
escape_lucene_query(query_str) ==
    Replace(EscapeLoop(query_str, special_chars), "\"", <<"\\", "\"">>)

StrId == <<"i", "d">>
StrDescription == <<"d", "e", "s", "c", "r", "i", "p", "t", "i", "o", "n">>
StrCategory == <<"c", "a", "t", "e", "g", "o", "r", "y">>
StrArchitecture == <<"a", "r", "c", "h", "i", "t", "e", "c", "t", "u", "r", "e">>
StrTags == <<"t", "a", "g", "s">>
StrGem5Versions == <<"g", "e", "m", "5", "_", "v", "e", "r", "s", "i", "o", "n", "s">>

\* " OR ", " AND ", and the boost "^10" of lines 125-126
StrOr == <<" ", "O", "R", " ">>
StrAnd == <<" ", "A", "N", "D", " ">>
Boost == <<"^", "1", "0">>

\* f'{field}:"{e}"' with its boost, if any
ExactMatch(field, e, boost) == field \o <<":", "\"">> \o e \o <<"\"">> \o boost

\* f'{field}:{e}*' with its boost, if any
PrefixMatch(field, e, boost) == field \o <<":">> \o e \o <<"*">> \o boost

\* Mutant of TermClause: the description matches boosted like the id ones.
TermClause_BoostsDescription(e) ==
    <<"(">>
    \o Join(<<ExactMatch(StrId, e, Boost), PrefixMatch(StrId, e, Boost),
              ExactMatch(StrDescription, e, Boost), PrefixMatch(StrDescription, e, Boost),
              ExactMatch(StrCategory, e, <<>>), PrefixMatch(StrCategory, e, <<>>),
              ExactMatch(StrArchitecture, e, <<>>), PrefixMatch(StrArchitecture, e, <<>>),
              ExactMatch(StrTags, e, <<>>), PrefixMatch(StrTags, e, <<>>),
              <<"\"">> \o e \o <<"\"">>, e \o <<"*">>>>,
            StrOr)
    \o <<")">>

\* Lines 124-131: the clause of one escaped term, its twelve matches joined
\* by " OR " between parentheses.
TermClause(e) ==
    <<"(">>
    \o Join(<<ExactMatch(StrId, e, Boost), PrefixMatch(StrId, e, Boost),
              ExactMatch(StrDescription, e, <<>>), PrefixMatch(StrDescription, e, <<>>),
              ExactMatch(StrCategory, e, <<>>), PrefixMatch(StrCategory, e, <<>>),
              ExactMatch(StrArchitecture, e, <<>>), PrefixMatch(StrArchitecture, e, <<>>),
              ExactMatch(StrTags, e, <<>>), PrefixMatch(StrTags, e, <<>>),
              <<"\"">> \o e \o <<"\"">>, e \o <<"*">>>>,
            StrOr)
    \o <<")">>

\* Mutant of SearchText: the clauses joined by OR.
SearchText_JoinedByOr(phrase) ==
    IF phrase # <<>>
    THEN LET terms == Words(phrase)
         IN Join([i \in 1..Len(terms) |-> TermClause(escape_lucene_query(terms[i]))],
                 StrOr)
    ELSE <<"*">>

\* Lines 111-137: search_text
SearchText(phrase) ==
    IF phrase # <<>>
    THEN LET terms == Words(phrase)
         IN Join([i \in 1..Len(terms) |-> TermClause(escape_lucene_query(terms[i]))],
                 StrAnd)
    ELSE <<"*">>

\* Mutant of QueryType: the full syntax whatever the phrase.
QueryType_AlwaysFull(phrase) == "full"

\* Lines 111-137: query_type
QueryType(phrase) == IF phrase # <<>> THEN "full" ELSE "simple"

\* " or ", " and " of the filter expression
StrFilterOr == <<" ", "o", "r", " ">>
StrFilterAnd == <<" ", "a", "n", "d", " ">>

\* f"{field} eq '{v}'"
EqTest(field, v) == field \o <<" ", "e", "q", " ", "'">> \o v \o <<"'">>

\* f"{field}/any({x}: {x} eq '{v}')"
AnyTest(field, x, v) ==
    field \o <<"/", "a", "n", "y", "(">> \o <<x, ":", " ", x>> \o <<" ", "e", "q", " ", "'">> \o v \o <<"'", ")">>

\* The values asked of a field: query_object.get(field), the empty list when
\* the field is not in the query object.
ValuesOf(qo, field) == Get(qo, field, PyList(<<>>)).val

\* Mutant of ScalarFilter: the tests of a field joined by and.
ScalarFilter_JoinedByAnd(qo, field) ==
    LET values == ValuesOf(qo, field)
    IN IF values = <<>> THEN <<>>
       ELSE IF Len(values) = 1 THEN <<EqTest(field, values[1])>>
       ELSE <<<<"(">> \o Join([i \in 1..Len(values) |-> EqTest(field, values[i])],
                              StrFilterAnd) \o <<")">>>>

\* Lines 258-278: the filters a scalar field adds, none or one.
ScalarFilter(qo, field) ==
    LET values == ValuesOf(qo, field)
    IN IF values = <<>> THEN <<>>
       ELSE IF Len(values) = 1 THEN <<EqTest(field, values[1])>>
       ELSE <<<<"(">> \o Join([i \in 1..Len(values) |-> EqTest(field, values[i])],
                              StrFilterOr) \o <<")">>>>

\* Lines 280-292: the filters a collection field adds, none or one.
CollectionFilter(qo, field, x) ==
    LET values == ValuesOf(qo, field)
    IN IF values = <<>> THEN <<>>
       ELSE <<<<"(">> \o Join([i \in 1..Len(values) |-> AnyTest(field, x, values[i])],
                              StrFilterOr) \o <<")">>>>

\* build_odata_filter: the filter string, or None.
build_odata_filter(qo) ==
    LET filters == ScalarFilter(qo, StrCategory) \o ScalarFilter(qo, StrArchitecture)
                   \o CollectionFilter(qo, StrTags, "t")
                   \o CollectionFilter(qo, StrGem5Versions, "v")
    IN IF filters # <<>> THEN PyStr(Join(filters, StrFilterAnd)) ELSE None

\* Lines 104-137: the filter, the query text and the query type.
BuildQuery ==
    /\ pc = "query"
    /\ odata_filter' = build_odata_filter(query_object)
    /\ search_text' = SearchText(contains_str)
    /\ query_type' = QueryType(contains_str)
    /\ pc' = "search"
    /\ UNCHANGED <<params, index, contains_str, must_include, sort_param, page,
                   page_size, query_object, all_results, unique_resources,
                   sorted_resources, response, backend_calls, raised, history,
                   list_vars, escape_vars>>

\* Lines 151-155: each result as a dict with its score.
WithScore(result) == Put(result, "score", Get(result, "@search.score", 0))

\* Mutant of CallBackend: a failed query is tried again.
CallBackend_Retries ==
    /\ pc = "search"
    /\ backend_calls' = backend_calls + 1
    /\ \E raises \in BOOLEAN :
          /\ raised' = raises
          /\ IF raises
             THEN /\ pc' = "search"
                  /\ UNCHANGED <<all_results, response>>
             ELSE /\ all_results' = [i \in 1..Len(index) |-> WithScore(index[i])]
                  /\ pc' = "consolidate"
                  /\ UNCHANGED response
    /\ UNCHANGED <<params, index, contains_str, must_include, sort_param, page,
                   page_size, query_object, unique_resources, sorted_resources,
                   history, query_vars,
                   list_vars, escape_vars>>

\* Lines 141-155 and 197-199: the one backend query.  It returns the
\* candidates, or it raises and the request ends with the 500 response.
CallBackend ==
    /\ pc = "search"
    /\ backend_calls' = backend_calls + 1
    /\ \E raises \in BOOLEAN :
          /\ raised' = raises
          /\ IF raises
             THEN /\ response' = create_error_response(500, "Internal server error")
                  /\ pc' = "done"
                  /\ UNCHANGED all_results
             ELSE /\ all_results' = [i \in 1..Len(index) |-> WithScore(index[i])]
                  /\ pc' = "consolidate"
                  /\ UNCHANGED response
    /\ UNCHANGED <<params, index, contains_str, must_include, sort_param, page,
                   page_size, query_object, unique_resources, sorted_resources,
                   history, query_vars,
                   list_vars, escape_vars>>

\* Line 159
Consolidate ==
    /\ pc = "consolidate"
    /\ unique_resources' = keep_latest_versions(all_results)
    /\ pc' = "sort"
    /\ UNCHANGED <<params, index, contains_str, must_include, sort_param, page,
                   page_size, query_object, all_results, sorted_resources,
                   response, backend_calls, raised, history, query_vars,
                   list_vars, escape_vars>>

\* Lines 161-164 and 197-199: the ranking, or the 500 response when it raises.
ApplySort ==
    /\ pc = "sort"
    /\ IF SortRaises(unique_resources, Get(query_object, KeySort, PyStr("default")))
       THEN /\ response' = create_error_response(500, "Internal server error")
            /\ pc' = "done"
            /\ UNCHANGED sorted_resources
       ELSE /\ sorted_resources' =
                   apply_sorting(unique_resources, Get(query_object, KeySort, PyStr("default")))
            /\ pc' = "paginate"
            /\ UNCHANGED response
    /\ UNCHANGED <<params, index, contains_str, must_include, sort_param, page,
                   page_size, query_object, all_results, unique_resources,
                   backend_calls, raised, history, query_vars,
                   list_vars, escape_vars>>

\* s[start:end] for 0 <= start <= end
Slice(s, start, end) == SubSeq(s, start + 1, IF end < Len(s) THEN end ELSE Len(s))

\* Mutant of PageOf: the offset computed from page, not page - 1.
PageOf_StartAtPage(ranked, p, ps) == Slice(ranked, p * ps, p * ps + ps)

\* Mutant of PageOf: the end offset taken as inclusive.
PageOf_InclusiveEnd(ranked, p, ps) == Slice(ranked, (p - 1) * ps, (p - 1) * ps + ps + 1)

\* Lines 170-172: the page of the ranked sequence.
PageOf(ranked, p, ps) == Slice(ranked, (p - 1) * ps, (p - 1) * ps + ps)

\* Mutant of CleanUp: the highlights are left in the document.
CleanUp_KeepsHighlights(resource) ==
    Put(Pop(Pop(resource, "@search.score"), "@search.reranker_score"),
        "database", "gem5-vision")

\* Lines 175-184: the backend's fields removed, the provenance tag set.
CleanUp(resource) ==
    Put(Pop(Pop(Pop(resource, "@search.score"), "@search.highlights"),
            "@search.reranker_score"),
        "database", "gem5-vision")

\* Mutant of ResponseData: the count taken after the slice.
ResponseData_CountsPage(ranked, p, ps) ==
    [documents |-> [i \in 1..Len(PageOf(ranked, p, ps)) |-> CleanUp(PageOf(ranked, p, ps)[i])],
     totalCount |-> Len(PageOf(ranked, p, ps))]

\* Lines 166-189: response_data, the count taken before the slice.
ResponseData(ranked, p, ps) ==
    LET total_count == Len(ranked)
        paginated_results == PageOf(ranked, p, ps)
    IN [documents |-> [i \in 1..Len(paginated_results) |-> CleanUp(paginated_results[i])],
        totalCount |-> total_count]

\* Lines 166-195: the 200 response.
Paginate ==
    /\ pc = "paginate"
    /\ response' = [status |-> 200, body |-> ResponseData(sorted_resources, page, page_size)]
    /\ pc' = "done"
    /\ UNCHANGED <<params, index, contains_str, must_include, sort_param, page,
                   page_size, query_object, all_results, unique_resources,
                   sorted_resources, backend_calls, raised, history, query_vars,
                   list_vars, escape_vars>>

\* str(n) for n >= 0
RECURSIVE IntStr(_)
IntStr(n) ==
    LET d == CHOOSE c \in Digits : DigitValue(c) = n % 10
    IN IF n < 10 THEN <<d>> ELSE IntStr(n \div 10) \o <<d>>

\* The client asks for the next page of the same search: the same parameters
\* but page, answered from the same backend content.
NextPage ==
    /\ pc = "done"
    /\ response.status = 200
    /\ Len(history) < MaxFollowUps
    /\ history' = Append(history, [page |-> page, body |-> response.body])
    /\ params' = Put(params, "page", IntStr(page + 1))
    /\ LocalsReset
    /\ pc' = "params"
    /\ UNCHANGED index

\* The client is done with this search: the handler keeps nothing of it.
Forget ==
    /\ pc = "done"
    /\ params' = EmptyDict
    /\ index' = <<>>
    /\ history' = <<>>
    /\ LocalsReset
    /\ pc' = "idle"

\* ----------------------------------------------------- list_all_resources

MaxVersionLen == 20

VersionChar(c) == c \in Digits \/ c = "."

\* sanitize_version: the stripped value if it is 1 to 20 digits and dots,
\* else None.
sanitize_version(value) ==
    LET v == Strip(value)
    IN IF Len(v) >= 1 /\ Len(v) <= MaxVersionLen /\ \A i \in 1..Len(v) : VersionChar(v[i])
       THEN PyStr(v)
       ELSE None

\* Mutant of VersionPrefixes: the prefixes start at the major version alone.
VersionPrefixes_FromMajor(version) ==
    LET version_parts == Split(version, ".")
    IN [k \in 1..Len(version_parts) |-> Join(SubSeq(version_parts, 1, k), <<".">>)]

\* Lines 57-60: ".".join(version_parts[:i]) for i in range(2, len + 1)
VersionPrefixes(version) ==
    LET version_parts == Split(version, ".")
    IN [k \in 1..(Len(version_parts) - 1) |->
           Join(SubSeq(version_parts, 1, k + 1), <<".">>)]

\* Lines 72-74: the stored documents one of whose gem5_versions is one of
\* the prefixes, in the order of the store; the projection keeps the fields
\* the documents of the model have.
Find(stored, wanted) ==
    SelectSeq(stored,
              LAMBDA doc : \E i \in 1..Len(doc.gem5_versions) :
                              \E j \in 1..Len(wanted) : doc.gem5_versions[i] = wanted[j])

\* A request to list-all-resources arrives; the store holds some documents.
ListReceive(ParamSets, StoreSets) ==
    /\ pc = "idle"
    /\ params' \in ParamSets
    /\ collection' \in StoreSets
    /\ gem5_version' = None
    /\ prefixes' = <<>>
    /\ history' = <<>>
    /\ response' = NoResponse
    /\ raised' = FALSE
    /\ pc' = "list_version"
    /\ UNCHANGED <<index, contains_str, must_include, sort_param, page, page_size,
                   query_object, all_results, unique_resources, sorted_resources,
                   backend_calls, query_vars, escape_vars>>

\* Lines 39-51: the version parameter, or a 400 response.
ListVersion ==
    /\ pc = "list_version"
    /\ IF Get(params, "gem5-version", <<>>) = <<>>
       THEN /\ response' = create_error_response(400, "'gem5-version' parameter is required")
            /\ pc' = "done"
            /\ UNCHANGED gem5_version
       ELSE IF sanitize_version(params["gem5-version"]) = None
       THEN /\ response' = create_error_response(400, "Invalid 'gem5-version' parameter format")
            /\ pc' = "done"
            /\ UNCHANGED gem5_version
       ELSE /\ gem5_version' = sanitize_version(params["gem5-version"])
            /\ pc' = "list_prefixes"
            /\ UNCHANGED response
    /\ UNCHANGED <<params, index, contains_str, must_include, sort_param, page,
                   page_size, query_object, all_results, unique_resources,
                   sorted_resources, backend_calls, raised, history, query_vars,
                   collection, prefixes, escape_vars>>

\* Lines 57-68: the prefixes, or a 400 response when there is none.
ListPrefixes ==
    /\ pc = "list_prefixes"
    /\ prefixes' = VersionPrefixes(gem5_version.val)
    /\ IF prefixes' = <<>>
       THEN /\ response' = create_error_response(400,
                   "Invalid 'gem5-version' parameter: must have at least major version format (e.g., '23.0', '25.1')")
            /\ pc' = "done"
       ELSE /\ pc' = "list_find"
            /\ UNCHANGED response
    /\ UNCHANGED <<params, index, contains_str, must_include, sort_param, page,
                   page_size, query_object, all_results, unique_resources,
                   sorted_resources, backend_calls, raised, history, query_vars,
                   collection, gem5_version, escape_vars>>

\* Lines 72-84: the query of the store and the 200 response, or the 500
\* response when the query raises.
ListFind ==
    /\ pc = "list_find"
    /\ \E raises \in BOOLEAN :
          /\ raised' = raises
          /\ response' = IF raises
                         THEN create_error_response(500, "Internal server error")
                         ELSE [status |-> 200, body |-> Find(collection, prefixes)]
    /\ pc' = "done"
    /\ UNCHANGED <<params, index, contains_str, must_include, sort_param, page,
                   page_size, query_object, all_results, unique_resources,
                   sorted_resources, backend_calls, history, query_vars,
                   list_vars, escape_vars>>

\* The client asks again for a dotted extension of the version it was
\* answered for, over the same store.
AskExtension ==
    /\ pc = "done"
    /\ response.status = 200
    /\ Len(history) < MaxFollowUps
    /\ history' = Append(history, [prefixes |-> prefixes, body |-> response.body])
    /\ \E d \in {"0", "1"} :
          params' = Put(params, "gem5-version", gem5_version.val \o <<".", d>>)
    /\ gem5_version' = None
    /\ prefixes' = <<>>
    /\ response' = NoResponse
    /\ raised' = FALSE
    /\ pc' = "list_version"
    /\ UNCHANGED <<index, contains_str, must_include, sort_param, page, page_size,
                   query_object, all_results, unique_resources, sorted_resources,
                   backend_calls, query_vars, collection, escape_vars>>

\* The client is done with this listing: the handler keeps nothing of it.
ListForget ==
    /\ pc = "done"
    /\ params' = EmptyDict
    /\ collection' = <<>>
    /\ gem5_version' = None
    /\ prefixes' = <<>>
    /\ history' = <<>>
    /\ response' = NoResponse
    /\ raised' = FALSE
    /\ pc' = "idle"
    /\ UNCHANGED <<index, contains_str, must_include, sort_param, page, page_size,
                   query_object, all_results, unique_resources, sorted_resources,
                   backend_calls, query_vars, escape_vars>>

\* ------------------------------------------------------------ the inputs

\* The sequences over S of length at most n.
SeqsUpTo(S, n) == UNION {[1..k -> S] : k \in 0..n}

\* A backend result: a document with the backend's score annotation.
Doc(id, resource_version, score) ==
    ("@search.score" :> score) @@ [id |-> id, resource_version |-> resource_version]

\* A backend result without an id field.
NoIdDoc == ("@search.score" :> 4) @@ [resource_version |-> <<"1", ".", "0", ".", "0">>]

\* Request parameters: every choice of one option per parameter, an option
\* being the empty dict (parameter absent) or a dict with the one parameter.
ParamChoices(Sorts, Pages, Sizes, Filters) ==
    {a @@ b @@ c @@ d : a \in Sorts, b \in Pages, c \in Sizes, d \in Filters}

Absent == {EmptyDict}
SortParam(S) == {[sort |-> x] : x \in S}
PageParam(S) == {[page |-> x] : x \in S}
SizeParam(S) == {("page-size" :> x) : x \in S}
FilterParam(S) == {("must-include" :> x) : x \in S}

\* The catalogue the paging and ranking requests run against: ids that differ
\* in case only, one id in two versions, and a document with no id.
PagingDocs ==
    {Doc(<<"a">>, <<"1", ".", "0", ".", "0">>, 5),
     Doc(<<"B">>, <<"1", ".", "0", ".", "0">>, 7),
     Doc(<<"b">>, <<"2", ".", "0">>, 2),
     Doc(<<"c">>, <<"1", ".", "0", ".", "0">>, 5),
     Doc(<<"a">>, <<"2", ".", "0", ".", "0">>, 9),
     NoIdDoc}

PagingParams ==
    ParamChoices(Absent \cup SortParam({"id_asc", "id_desc", "name"}),
                 Absent \cup PageParam({<<"3">>}),
                 Absent \cup SizeParam({<<"1">>, <<"2">>}),
                 Absent)

Next ==
    \/ Receive(PagingParams, SeqsUpTo(PagingDocs, MaxCandidates))
    \/ ReadParams
    \/ ValidatePagination
    \/ ParseFilters
    \/ BuildQuery
    \/ CallBackend
    \/ Consolidate
    \/ ApplySort
    \/ Paginate
    \/ NextPage
    \/ Forget

Spec == Init /\ [][Next]_vars

\* The catalogue of the consolidation requests: one id in versions that
\* parse to tuples of different lengths, that do not parse, and whose order
\* as numbers differs from their order as strings; an id that differs from it
\* in case only; a document with the empty id, one with no id, and one with
\* neither version nor score.
VersionDocs ==
    {Doc(<<"R">>, <<"1", ".", "0", ".", "0">>, 5),
     Doc(<<"R">>, <<"2", ".", "0", ".", "0">>, 2),
     Doc(<<"R">>, <<"1", "0", ".", "0">>, 4),
     Doc(<<"R">>, <<"b", "a", "d">>, 7),
     Doc(<<"R">>, <<"0">>, 1),
     Doc(<<"R">>, <<"0", ".", "0", ".", "0">>, 3),
     Doc(<<"r">>, <<"9", ".", "0", ".", "0">>, 6),
     Doc(<<>>, <<"3", ".", "0", ".", "0">>, 8),
     [id |-> <<"R">>],
     NoIdDoc}

ConsolidationParams ==
    ParamChoices(Absent, Absent, Absent \cup SizeParam({<<"1">>}), Absent)

NextConsolidation ==
    \/ Receive(ConsolidationParams, SeqsUpTo(VersionDocs, MaxCandidates))
    \/ ReadParams
    \/ ValidatePagination
    \/ ParseFilters
    \/ BuildQuery
    \/ CallBackend
    \/ Consolidate
    \/ ApplySort
    \/ Paginate
    \/ NextPage
    \/ Forget

\* The handler on the consolidation catalogue.
SpecConsolidation == Init /\ [][NextConsolidation]_vars

\* n copies of the character c
Repeat(c, n) == [i \in 1..n |-> c]

\* A clause with a value of 97 characters, 100 characters with its separator.
Clause100 == <<"t", ",">> \o Repeat("a", 97) \o <<";">>

\* The page and page-size parameters of the validation requests.
PageStrings ==
    {<<"0">>, <<"1">>, <<"2">>, <<"-", "1">>, <<"x">>, <<>>, <<"1", ".", "5">>,
     <<" ", "2", " ">>}

SizeStrings ==
    {<<"0">>, <<"1">>, <<"1", "0", "0">>, <<"1", "0", "1">>, <<"a", "b", "c">>,
     <<>>, <<"+", "5">>}

\* The must-include parameters of the validation requests.
FilterStrings ==
    {<<>>,
     <<";">>,
     <<"a", "-", "b">>,
     StrCategory \o <<",", "x">>,
     StrCategory \o <<",">>,
     StrCategory \o <<",", "x", ";">>,
     StrCategory \o <<",", "x", ",", ",", "y">>,
     StrCategory \o <<",", "a", " ", "b">>,
     StrCategory \o <<",", "a", "'", "b">>,
     <<" ">> \o StrCategory \o <<",", "x", ";">> \o StrTags \o <<",", "y", " ">>,
     StrCategory \o <<",", "x", ";">> \o StrTags,
     <<",", "x">>,
     StrTags \o <<",">> \o Repeat("a", 100),
     StrTags \o <<",">> \o Repeat("a", 101),
     Clause100 \o Clause100 \o Clause100 \o Clause100 \o <<"t", ",">> \o Repeat("a", 101)}

ValidationParams ==
    ParamChoices(Absent \cup SortParam({"date"}),
                 Absent \cup PageParam(PageStrings),
                 Absent \cup SizeParam(SizeStrings),
                 Absent \cup FilterParam(FilterStrings))

ValidationDocs ==
    {Doc(<<"a">>, <<"1", ".", "0", ".", "0">>, 5),
     Doc(<<"b">>, <<"1", ".", "0", ".", "0">>, 7)}

NextValidation ==
    \/ Receive(ValidationParams, SeqsUpTo(ValidationDocs, MaxCandidates - 1))
    \/ ReadParams
    \/ ValidatePagination
    \/ ParseFilters
    \/ BuildQuery
    \/ CallBackend
    \/ Consolidate
    \/ ApplySort
    \/ Paginate
    \/ NextPage
    \/ Forget

\* The handler on requests with well-formed and malformed parameters.
SpecValidation == Init /\ [][NextValidation]_vars

ContainsParam(S) == {("contains-str" :> x) : x \in S}

\* The phrases of the query requests: none, empty, empty once sanitised, one
\* term, two terms with blanks around them, terms with characters that the
\* query syntax reserves.
ContainsStrings ==
    {<<>>,
     <<" ">>,
     <<"$">>,
     <<"$", " ", "$">>,
     <<"a">>,
     <<" ", "a", " ", " ", "b", " ">>,
     <<"a", "+", "b">>,
     <<"x", "\"", "y", " ", "c", ":", "\\", "d">>}

\* The filters of the query requests: each field alone with one value and
\* with two, several fields, a field given twice, a field that is none of
\* the four.
QueryFilterStrings ==
    {StrCategory \o <<",", "x">>,
     StrCategory \o <<",", "x", ",", "y">>,
     StrArchitecture \o <<",", "z">>,
     StrTags \o <<",", "t", ",", "u">>,
     StrGem5Versions \o <<",", "2", "3", ".", "0">>,
     StrCategory \o <<",", "x", ";">> \o StrArchitecture \o <<",", "z", ",", "x", ";">>
         \o StrTags \o <<",", "t", ";">> \o StrGem5Versions \o <<",", "2", "3", ".", "0", ",", "2", "2", ".", "1">>,
     StrCategory \o <<",", "x", ";">> \o StrCategory \o <<",", "y">>,
     <<"f", "o", "o", ",", "x">>,
     <<"f", "o", "o", ",", "x", ";">> \o StrTags \o <<",", "u">>}

QueryParams ==
    {p @@ c : p \in ParamChoices(Absent \cup SortParam({"", "bogus", "DATE", "version"}),
                                 Absent,
                                 Absent \cup SizeParam({<<"1">>}),
                                 Absent),
              c \in Absent \cup ContainsParam(ContainsStrings)}

FilterRequestParams ==
    ParamChoices(Absent, Absent, Absent, Absent \cup FilterParam(QueryFilterStrings))

\* The catalogue of the query requests: scores that rise along the backend's
\* order, and a document with fields of the backend besides the score.
QueryDocs ==
    {Doc(<<"a">>, <<"1", ".", "0", ".", "0">>, 2),
     Doc(<<"b">>, <<"3", ".", "0", ".", "0">>, 5),
     Doc(<<"c">>, <<"2", ".", "0", ".", "0">>, 7)
         @@ ("@search.highlights" :> 1) @@ ("@search.reranker_score" :> 3)}

NextQuery ==
    \/ Receive(QueryParams, SeqsUpTo(QueryDocs, MaxCandidates - 1))
    \/ ReadParams
    \/ ValidatePagination
    \/ ParseFilters
    \/ BuildQuery
    \/ CallBackend
    \/ Consolidate
    \/ ApplySort
    \/ Paginate
    \/ NextPage
    \/ Forget

\* The handler on requests with phrases and sort tokens.
SpecQuery == Init /\ [][NextQuery]_vars

NextFilter ==
    \/ Receive(FilterRequestParams, SeqsUpTo(QueryDocs, MaxCandidates - 1))
    \/ ReadParams
    \/ ValidatePagination
    \/ ParseFilters
    \/ BuildQuery
    \/ CallBackend
    \/ Consolidate
    \/ ApplySort
    \/ Paginate
    \/ NextPage
    \/ Forget

\* The handler on requests with filters.
SpecFilter == Init /\ [][NextFilter]_vars

\* The characters of the strings given to escape_lucene_query on its own:
\* the characters it escapes, a letter and a blank.
TermAlphabet ==
    {"\\", "+", "-", "&", "|", "!", "(", ")", "{", "}", "[", "]", "^", "~", "*",
     "?", ":", "/", "\"", "a", " "}

\* escape_lucene_query is called on a string.
Escape ==
    /\ \E t \in SeqsUpTo(TermAlphabet, MaxTermLen) :
          /\ term' = t
          /\ escaped_term' = escape_lucene_query(t)
    /\ UNCHANGED <<pc, params, index, contains_str, must_include, sort_param, page,
                   page_size, query_object, all_results, unique_resources,
                   sorted_resources, response, backend_calls, raised, history,
                   query_vars, list_vars>>

NextEscape == Escape

\* escape_lucene_query on every string over the alphabet up to the bound.
SpecEscape == Init /\ [][NextEscape]_vars

\* A stored resource.
Stored(id, resource_version, versions) ==
    [id |-> id, resource_version |-> resource_version, gem5_versions |-> versions]

Str23_0 == <<"2", "3", ".", "0">>

\* A version of 17 characters: its second extension has 21.
StrLongVersion ==
    <<"1", ".", "2", ".", "3", ".", "4", ".", "5", ".", "6", ".", "7", ".", "8", ".", "9">>

\* The store of the listing requests: one id in two versions for the same
\* gem5 version, a resource for an extension of it, one for the long version.
StoredDocs ==
    {Stored(<<"r">>, <<"1", ".", "0", ".", "0">>, <<Str23_0>>),
     Stored(<<"r">>, <<"2", ".", "0", ".", "0">>, <<Str23_0, <<"2", "2", ".", "1">>>>),
     Stored(<<"s">>, <<"1", ".", "0", ".", "0">>, <<Str23_0 \o <<".", "0">>>>),
     Stored(<<"t">>, <<"1", ".", "0", ".", "0">>, <<StrLongVersion>>)}

VersionParam(S) == {("gem5-version" :> x) : x \in S}
LatestParam(S) == {("latest-version" :> x) : x \in S}

\* The versions of the listing requests: well formed, with blanks around,
\* with one component, with an empty component, not a version, long.
VersionStrings ==
    {Str23_0,
     <<" ">> \o Str23_0 \o <<" ">>,
     <<"2", "3">>,
     <<"2", "3", ".", ".", "0">>,
     <<"2", "3", ".", "x">>,
     <<>>,
     StrLongVersion}

ListParams ==
    {v @@ l : v \in Absent \cup VersionParam(VersionStrings),
              l \in Absent \cup LatestParam({<<"t", "r", "u", "e">>, <<"f", "a", "l", "s", "e">>})}

\* The stores: sequences of different documents.
Stores ==
    {st \in SeqsUpTo(StoredDocs, MaxCandidates - 1) :
        \A i, j \in 1..Len(st) : st[i] = st[j] => i = j}

NextList ==
    \/ ListReceive(ListParams, Stores)
    \/ ListVersion
    \/ ListPrefixes
    \/ ListFind
    \/ AskExtension
    \/ ListForget

\* list_all_resources on the listing requests.
SpecList == Init /\ [][NextList]_vars

\* A backend result with the fields the policies sort by.
RankedDoc(id, score, date, versions) ==
    Doc(id, <<"1", ".", "0", ".", "0">>, score) @@ [date |-> date, gem5_versions |-> versions]

Str2024 == <<"2", "0", "2", "4">>

\* The catalogue of the ranking requests: two documents equal in date,
\* gem5 version and score; a third whose id differs from the second's in case
\* only and whose date order is not its score order; a document with a
\* resource_version that is no str and neither date, gem5_versions nor score;
\* one with no id; one with an empty list of gem5 versions.
RankingDocs ==
    {RankedDoc(<<"a">>, 5, Str2024, <<Str23_0>>),
     RankedDoc(<<"B">>, 5, Str2024, <<Str23_0>>),
     RankedDoc(<<"b">>, 7, <<"2", "0", "2", "3">>, <<<<"2", "2", ".", "1">>, Str23_0>>),
     [id |-> <<"c">>, resource_version |-> <<"NoneType">>],
     NoIdDoc,
     RankedDoc(<<"d">>, 5, Str2024, <<>>)}

\* The requests of the ranking: every policy, and must-include clauses whose
\* field is a key the handler itself writes into the query object.
RankingParams ==
    ParamChoices(Absent \cup SortParam({"date", "name", "id_asc", "id_desc", "version"}),
                 Absent,
                 Absent,
                 Absent \cup FilterParam({KeySort \o <<",", "x">>, KeyQuery \o <<",", "x">>}))

NextRanking ==
    \/ Receive(RankingParams, SeqsUpTo(RankingDocs, MaxCandidates))
    \/ ReadParams
    \/ ValidatePagination
    \/ ParseFilters
    \/ BuildQuery
    \/ CallBackend
    \/ Consolidate
    \/ ApplySort
    \/ Paginate
    \/ NextPage
    \/ Forget

\* The handler on the ranking requests.
SpecRanking == Init /\ [][NextRanking]_vars

\* ------------------------------------------------------------- the claims

\* The request has been consolidated: unique_resources holds the output of
\* keep_latest_versions for the candidates in index.
Consolidated == pc \in {"sort", "paginate"} \/ (pc = "done" /\ response.status = 200)

\* The request was answered 200.
Answered200 == pc = "done" /\ response.status = 200

\* The non-empty ids among the documents of a sequence.
IdsOf(docs) == {Get(docs[i], "id", <<>>) : i \in DOMAIN docs} \ {<<>>}

\* The positions of a sequence whose document has the id.
WithId(docs, id) == {i \in DOMAIN docs : Get(docs[i], "id", <<>>) = id}

\* The version tuple the consolidation ranks a document by.
ParsedVersion(doc) ==
    parse_version(Get(doc, "resource_version", <<"0", ".", "0", ".", "0">>))

\* Every part of the dotted version string is an integer.
Parseable(version_str) ==
    LET parts == Split(version_str, ".")
    IN \A i \in 1..Len(parts) : IsIntStr(parts[i])

\* C1: the consolidated set, and every page of a response, holds each id at
\* most once, and the consolidated set holds exactly the non-empty ids of the
\* candidates.
C1_EachIdOnce ==
    /\ Consolidated =>
          /\ \A i, j \in DOMAIN unique_resources :
                Get(unique_resources[i], "id", <<>>) = Get(unique_resources[j], "id", <<>>)
                   => i = j
          /\ \A i \in DOMAIN unique_resources : Get(unique_resources[i], "id", <<>>) # <<>>
          /\ IdsOf(unique_resources) = IdsOf(index)
    /\ Answered200 =>
          \A i, j \in DOMAIN response.body.documents :
             response.body.documents[i].id = response.body.documents[j].id => i = j

\* C1 witness: three candidates, two of one id and one without id, answered
\* with the one document of that id.
C1_Witness ==
    /\ Answered200
    /\ Len(index) = 3
    /\ Cardinality(IdsOf(index)) = 1
    /\ \E i \in DOMAIN index : "id" \notin DOMAIN index[i]
    /\ Len(response.body.documents) = 1

\* C2: the representative of an id is one of that id's candidates, and no
\* candidate of the id has a greater parsed version.
C2_RepresentativeIsLatest ==
    Consolidated =>
       \A i \in DOMAIN unique_resources :
          LET rep == unique_resources[i]
          IN /\ \E k \in WithId(index, rep.id) :
                   /\ Get(index[k], "resource_version", <<>>) = Get(rep, "resource_version", <<>>)
                   /\ ParsedVersion(index[k]) = ParsedVersion(rep)
             /\ \A k \in WithId(index, rep.id) :
                   ~TupleLess(ParsedVersion(rep), ParsedVersion(index[k]))

\* C2 witness: version 10.0 is the representative although 2.0.0, which is
\* greater as a string, came after it.
C2_Witness ==
    /\ Consolidated
    /\ Len(index) = 2
    /\ index[1] = Doc(<<"R">>, <<"1", "0", ".", "0">>, 4)
    /\ index[2] = Doc(<<"R">>, <<"2", ".", "0", ".", "0">>, 2)
    /\ Len(unique_resources) = 1
    /\ unique_resources[1].resource_version = <<"1", "0", ".", "0">>

\* The greatest backend score among the candidates of an id.
MaxScoreOf(id) ==
    CHOOSE m \in {Get(index[k], "@search.score", 0) : k \in WithId(index, id)} :
       \A k \in WithId(index, id) : Get(index[k], "@search.score", 0) <= m

\* C3: the score of a representative, in the consolidated set and in the
\* response, is the maximum score among the candidates of its id.
C3_ScoreIsMaximum ==
    /\ Consolidated =>
          \A i \in DOMAIN unique_resources :
             unique_resources[i].score = MaxScoreOf(unique_resources[i].id)
    /\ Answered200 =>
          \A i \in DOMAIN response.body.documents :
             response.body.documents[i].score = MaxScoreOf(response.body.documents[i].id)

\* C3 witness: R in versions 1.0.0 (score 5) and 2.0.0 (score 2) is answered
\* as one document, version 2.0.0, score 5.
C3_Witness ==
    /\ Answered200
    /\ index = <<Doc(<<"R">>, <<"1", ".", "0", ".", "0">>, 5),
                 Doc(<<"R">>, <<"2", ".", "0", ".", "0">>, 2)>>
    /\ Len(response.body.documents) = 1
    /\ response.body.documents[1].resource_version = <<"2", ".", "0", ".", "0">>
    /\ response.body.documents[1].score = 5

\* C4: a candidate whose version does not parse is never the representative
\* of an id that has a candidate whose version parses.
C4_UnparseableNeverChosen ==
    Consolidated =>
       \A i \in DOMAIN unique_resources :
          LET rep == unique_resources[i]
          IN ~Parseable(Get(rep, "resource_version", <<"0", ".", "0", ".", "0">>)) =>
                \A k \in WithId(index, rep.id) :
                   ~Parseable(Get(index[k], "resource_version", <<"0", ".", "0", ".", "0">>))

\* The smaller of two numbers.
Min(a, b) == IF a < b THEN a ELSE b

\* C5: totalCount is the number of distinct non-empty ids among the raw
\* candidates, on this page and on every earlier page of the same search.
C5_TotalCountIsConsolidatedCount ==
    Answered200 =>
       /\ response.body.totalCount = Cardinality(IdsOf(index))
       /\ \A h \in DOMAIN history :
             history[h].body.totalCount = response.body.totalCount

\* C5 witness: a page beyond the last result, after two earlier pages, of
\* three candidates that consolidate to two documents.
C5_Witness ==
    /\ Answered200
    /\ Len(history) = 2
    /\ Len(index) = 3
    /\ response.body.totalCount = 2
    /\ (page - 1) * page_size >= 2
    /\ response.body.documents = <<>>

\* C6: the documents are the elements of the ranked sequence at the offsets
\* of the page, clipped to its end, in ranked order; a request that passed
\* validation and whose backend call returned is answered 200 on every page.
C6_PageIsSliceOfRanked ==
    /\ (pc = "done" /\ ~raised /\ backend_calls = 1) => response.status = 200
    /\ Answered200 =>
          LET docs == response.body.documents
              start == (page - 1) * page_size
              n == Len(sorted_resources)
          IN /\ Len(docs) <= page_size
             /\ Len(docs) = IF start >= n THEN 0 ELSE Min(page_size, n - start)
             /\ \A k \in DOMAIN docs : docs[k] = CleanUp(sorted_resources[start + k])

\* C6 witness: page 3 of size 2 over three ranked documents: status 200 and
\* no document.
C6_Witness ==
    /\ Answered200
    /\ page = 3
    /\ page_size = 2
    /\ Len(sorted_resources) = 3
    /\ response.body.documents = <<>>

\* The documents of the client's earlier pages, in page order.
RECURSIVE EarlierDocuments(_)
EarlierDocuments(h) ==
    IF h = <<>> THEN <<>> ELSE Head(h).body.documents \o EarlierDocuments(Tail(h))

\* C7: two pages of the same search share no id, and the pages from the
\* first on, concatenated, are the ranked sequence up to the end of the last
\* page asked for: nothing omitted, nothing repeated.
C7_PagesPartitionRanked ==
    Answered200 =>
       /\ \A h \in DOMAIN history :
             /\ history[h].page # page
             /\ IdsOf(history[h].body.documents) \cap IdsOf(response.body.documents) = {}
       /\ \A g, h \in DOMAIN history :
             g # h => IdsOf(history[g].body.documents)
                         \cap IdsOf(history[h].body.documents) = {}
       /\ (history # <<>> /\ history[1].page = 1) =>
             LET all == EarlierDocuments(history) \o response.body.documents
                 upto == Min(Len(sorted_resources), page * page_size)
             IN all = [k \in 1..upto |-> CleanUp(sorted_resources[k])]

\* C7 witness: pages 1, 2 and 3 of size 1 over three ranked documents.
C7_Witness ==
    /\ Answered200
    /\ Len(history) = 2
    /\ history[1].page = 1
    /\ page = 3
    /\ page_size = 1
    /\ Len(sorted_resources) = 3
    /\ Len(EarlierDocuments(history) \o response.body.documents) = 3

\* C8: under id_asc and name the case-folded ids of the ranked sequence and
\* of the page never decrease, under id_desc they never increase.
C8_IdOrderIsMonotone ==
    (Answered200 /\ "sort" \in DOMAIN params) =>
       /\ params.sort \in {"id_asc", "name"} =>
             /\ \A i, j \in DOMAIN sorted_resources :
                   i < j => ~StrLess(Lower(sorted_resources[j].id), Lower(sorted_resources[i].id))
             /\ \A i, j \in DOMAIN response.body.documents :
                   i < j => ~StrLess(Lower(response.body.documents[j].id),
                                     Lower(response.body.documents[i].id))
       /\ params.sort = "id_desc" =>
             /\ \A i, j \in DOMAIN sorted_resources :
                   i < j => ~StrLess(Lower(sorted_resources[i].id), Lower(sorted_resources[j].id))
             /\ \A i, j \in DOMAIN response.body.documents :
                   i < j => ~StrLess(Lower(response.body.documents[i].id),
                                     Lower(response.body.documents[j].id))

\* C8 witness: ids B and a, in this order as code points, answered a then B
\* under id_asc.
C8_Witness ==
    /\ Answered200
    /\ "sort" \in DOMAIN params
    /\ params.sort = "id_asc"
    /\ Len(response.body.documents) = 2
    /\ response.body.documents[1].id = <<"a">>
    /\ response.body.documents[2].id = <<"B">>

\* The pagination parameters have been validated.
PaginationDecided == pc \notin {"idle", "params", "pagination"}

\* The filter clauses have been validated.
FiltersDecided == pc \notin {"idle", "params", "pagination", "filters"}

\* The response is a 400 with a JSON body that carries an error message.
Rejected400 ==
    /\ pc = "done"
    /\ response.status = 400
    /\ DOMAIN response.body = {"error"}
    /\ response.body.error # ""

\* The page parameter is given and is no integer, or is less than 1.
BadPage ==
    "page" \in DOMAIN params /\ (~IsIntStr(params["page"]) \/ IntOf(params["page"]) < 1)

\* The page-size parameter is given and is no integer, or is outside 1..100.
BadPageSize ==
    "page-size" \in DOMAIN params
       /\ (\/ ~IsIntStr(params["page-size"])
           \/ IntOf(params["page-size"]) < 1
           \/ IntOf(params["page-size"]) > 100)

\* The messages of the pagination errors.
PaginationMessages ==
    {"Invalid pagination parameters",
     "Invalid pagination parameters: page must be >=1.",
     "Invalid pagination parameters: page-size must be between 1 and 100."}

\* C9: a request with a page below 1, a page-size outside 1..100 or a
\* non-integer page or page-size is answered 400 with an error message; any
\* other request passes the pagination checks with its page and page-size.
C9_PaginationValidation ==
    PaginationDecided =>
       IF BadPage \/ BadPageSize
       THEN Rejected400 /\ response.body.error \in PaginationMessages
       ELSE /\ ~(response.status = 400 /\ response.body.error \in PaginationMessages)
            /\ page >= 1
            /\ page_size \in 1..100

\* C9 witness: page-size 101 is answered 400.
C9_Witness ==
    /\ Rejected400
    /\ "page-size" \in DOMAIN params
    /\ params["page-size"] = <<"1", "0", "1">>
    /\ ~BadPage

\* The non-empty clauses of a must-include string.
ClausesOf(str) == SelectSeq(Split(str, ";"), LAMBDA g : g # <<>>)

\* A clause has fewer than two comma-separated tokens.
FewTokens(clause) == Len(Split(clause, ",")) < 2

\* A value is empty, longer than 100 characters, or has a character outside
\* letters, digits, underscore, dot and dash.
BadValue(v) ==
    \/ v = <<>>
    \/ Len(v) > 100
    \/ \E i \in 1..Len(v) : ~(IsWordChar(v[i]) \/ v[i] \in {"-", "."})

\* A clause has a value, a token after the first, that is bad.
HasBadValue(clause) ==
    LET parts == Split(clause, ",")
    IN \E i \in 2..Len(parts) : BadValue(parts[i])

\* C10 as stated: a must-include parameter with a clause of fewer than two
\* tokens, or with a value that is empty, too long or outside the identifier
\* characters, is answered 400.
C10_Original ==
    (FiltersDecided /\ "must-include" \in DOMAIN params) =>
       LET clauses == ClausesOf(params["must-include"])
       IN (\E i \in DOMAIN clauses : FewTokens(clauses[i]) \/ HasBadValue(clauses[i]))
             => Rejected400

\* C10 as amended: the clauses are those of the sanitised must-include (the
\* characters outside [\w,;.-] removed, the result cut to 500 characters); a
\* clause of it with fewer than two tokens, or with a value that is empty or
\* longer than 100 characters, is answered 400 before any backend call.
C10_SanitisedFilterValidation ==
    FiltersDecided =>
       LET clauses == ClausesOf(must_include)
       IN (\E i \in DOMAIN clauses : FewTokens(clauses[i]) \/ HasBadValue(clauses[i]))
             => (Rejected400 /\ backend_calls = 0)

\* C10 witness: the clause a-b, which has no comma, is answered 400 with the
\* filter format message.
C10_Witness ==
    /\ Rejected400
    /\ response.body.error = "Invalid filter format"
    /\ "must-include" \in DOMAIN params
    /\ params["must-include"] = <<"a", "-", "b">>

\* C11: a request answered with status 400, for bad pagination or for a
\* malformed filter, has not queried the backend: all validation comes
\* before the one backend query.
C11_NoBackendBefore400 ==
    response.status = 400 => backend_calls = 0 /\ all_results = <<>>

\* A request with valid pagination and a malformed filter is rejected while
\* the backend holds candidates for it.
C11_Witness ==
    /\ pc = "done"
    /\ response = [status |-> 400, body |-> [error |-> "Invalid filter format"]]
    /\ page = 2
    /\ index # <<>>

\* C12: the backend is queried at most once in a request, and when the query
\* fails the request ends with the one response of status 500 whose body is
\* the error "Internal server error" and nothing else; it is not tried again.
C12_BackendOnceFailureIs500 ==
    /\ backend_calls \in {0, 1}
    /\ raised =>
          /\ pc = "done"
          /\ backend_calls = 1
          /\ response = [status |-> 500, body |-> [error |-> "Internal server error"]]

\* The backend query failed while the backend held candidates.
C12_Witness ==
    /\ raised
    /\ pc = "done"
    /\ Len(index) = 2

\* The query has been built: odata_filter, search_text and query_type hold
\* what the backend is asked.
QueryBuilt ==
    pc \in {"search", "consolidate", "sort", "paginate"}
    \/ (pc = "done" /\ response.status \in {200, 500})

\* The tokens of a filter expression: parentheses, quoted literals, and words
\* (field names, range variables, operators) between blanks.  A character is
\* quoted when an odd number of quotes precedes it; a token starts at an
\* unquoted character that is no blank and that is a parenthesis, a quote, or
\* follows a blank, a parenthesis or a closing quote.
ODataTokens(s) ==
    LET Quoted(i) == Cardinality({j \in 1..(i - 1) : s[j] = "'"}) % 2 = 1
        Delimiter(i) == s[i] \in {" ", "(", ")", "'"}
        starts == {i \in 1..Len(s) :
                      /\ ~Quoted(i)
                      /\ s[i] # " "
                      /\ i = 1 \/ Delimiter(i) \/ Delimiter(i - 1)}
        EndOf(i, Stop(_)) ==
            IF \A k \in (i + 1)..Len(s) : ~Stop(k) THEN Len(s) + 1
            ELSE CHOOSE k \in (i + 1)..Len(s) :
                     Stop(k) /\ \A m \in (i + 1)..(k - 1) : ~Stop(m)
        TokenAt(i) ==
            IF s[i] \in {"(", ")"} THEN [t |-> s[i], v |-> <<>>]
            ELSE IF s[i] = "'"
            THEN [t |-> "lit", v |-> SubSeq(s, i + 1, EndOf(i, LAMBDA k : s[k] = "'") - 1)]
            ELSE [t |-> "word", v |-> SubSeq(s, i, EndOf(i, Delimiter) - 1)]
    IN [n \in 1..Cardinality(starts) |->
           TokenAt(CHOOSE i \in starts : Cardinality({j \in starts : j < i}) = n - 1)]

IsWord(tok, w) == tok.t = "word" /\ tok.v = w

Failed == [ok |-> FALSE, val |-> FALSE, rest |-> <<>>]

\* field eq 'literal' on a scalar field of the document.
IsEqTest(toks) ==
    /\ Len(toks) >= 3
    /\ toks[1].t = "word" /\ IsWord(toks[2], <<"e", "q">>) /\ toks[3].t = "lit"

\* field/any(x: x eq 'literal') on a collection field of the document.
IsAnyTest(toks) ==
    /\ Len(toks) >= 7
    /\ toks[1].t = "word" /\ Len(toks[1].v) > 4
    /\ SubSeq(toks[1].v, Len(toks[1].v) - 3, Len(toks[1].v)) = <<"/", "a", "n", "y">>
    /\ toks[2].t = "("
    /\ toks[3].t = "word" /\ toks[4].t = "word" /\ toks[3].v = toks[4].v \o <<":">>
    /\ IsWord(toks[5], <<"e", "q">>) /\ toks[6].t = "lit" /\ toks[7].t = ")"

\* The value of a filter expression on a document, by the grammar of the
\* backend's filter language: or of and of tests, and binding tighter than
\* or, parentheses grouping.  Each operator returns the value of the longest
\* expression at the head of the tokens and the tokens after it.
RECURSIVE EvalOr(_, _)
RECURSIVE EvalAnd(_, _)
RECURSIVE EvalPrimary(_, _)
RECURSIVE OrTail(_, _)
RECURSIVE AndTail(_, _)

EvalPrimary(toks, doc) ==
    IF toks = <<>> THEN Failed
    ELSE IF toks[1].t = "("
    THEN LET r == EvalOr(Tail(toks), doc)
         IN IF r.ok /\ r.rest # <<>> /\ r.rest[1].t = ")"
            THEN [r EXCEPT !.rest = Tail(r.rest)]
            ELSE Failed
    ELSE IF IsEqTest(toks)
    THEN [ok |-> TRUE,
          val |-> toks[1].v \in DOMAIN doc /\ doc[toks[1].v] = <<toks[3].v>>,
          rest |-> SubSeq(toks, 4, Len(toks))]
    ELSE IF IsAnyTest(toks)
    THEN LET field == SubSeq(toks[1].v, 1, Len(toks[1].v) - 4)
         IN [ok |-> TRUE,
             val |-> field \in DOMAIN doc
                     /\ \E i \in 1..Len(doc[field]) : doc[field][i] = toks[6].v,
             rest |-> SubSeq(toks, 8, Len(toks))]
    ELSE Failed

AndTail(acc, doc) ==
    IF acc.ok /\ acc.rest # <<>> /\ IsWord(acc.rest[1], <<"a", "n", "d">>)
    THEN LET r == EvalPrimary(Tail(acc.rest), doc)
         IN AndTail([ok |-> r.ok, val |-> acc.val /\ r.val, rest |-> r.rest], doc)
    ELSE acc

EvalAnd(toks, doc) == AndTail(EvalPrimary(toks, doc), doc)

OrTail(acc, doc) ==
    IF acc.ok /\ acc.rest # <<>> /\ IsWord(acc.rest[1], <<"o", "r">>)
    THEN LET r == EvalAnd(Tail(acc.rest), doc)
         IN OrTail([ok |-> r.ok, val |-> acc.val \/ r.val, rest |-> r.rest], doc)
    ELSE acc

EvalOr(toks, doc) == OrTail(EvalAnd(toks, doc), doc)

\* The tokens are those of a well formed expression.
WellFormed(toks) ==
    LET r == EvalOr(toks, EmptyDict) IN r.ok /\ r.rest = <<>>

\* The document satisfies the expression of these tokens.
Satisfies(doc, toks) == EvalOr(toks, doc).val

\* An indexed document as the filter sees it: the scalar fields hold a list
\* of the one value, the collection fields the list of their elements.
FilterDoc(category, architecture, tags, gem5_versions) ==
    (StrCategory :> <<category>>) @@ (StrArchitecture :> <<architecture>>)
    @@ (StrTags :> tags) @@ (StrGem5Versions :> gem5_versions)

FilterDocs ==
    {FilterDoc(c, a, t, g) :
        c \in {<<"x">>, <<"y">>, <<"w">>},
        a \in {<<"z">>, <<"x">>},
        t \in {<<>>, <<<<"t">>>>, <<<<"u">>, <<"t">>>>, <<<<"x">>>>},
        g \in {<<<<"2", "3", ".", "0">>>>, <<<<"2", "2", ".", "1">>, <<"2", "1", ".", "0">>>>}}

FilterFields == {StrCategory, StrArchitecture, StrTags, StrGem5Versions}

\* The fields among the four that the query object asks values of.
RequestedFields == {f \in FilterFields : f \in DOMAIN query_object}

\* C13: the filter expression is the conjunction, over the requested fields
\* among category, architecture, tags and gem5_versions, of the disjunction
\* over the field's requested values of an equality test (scalar field) or a
\* contains test (collection field): a document satisfies it exactly when,
\* for every requested field, it matches one of the requested values; with
\* no requested field the filter is None.
C13_FilterIsConjunctionOfDisjunctions ==
    QueryBuilt =>
        IF RequestedFields = {} THEN odata_filter = None
        ELSE /\ odata_filter # None
             /\ \A toks \in {ODataTokens(odata_filter.val)} :
                   /\ WellFormed(toks)
                   /\ \A doc \in FilterDocs :
                          Satisfies(doc, toks)
                          <=> \A f \in RequestedFields :
                                 \E i \in 1..Len(query_object[f].val) :
                                    \E j \in 1..Len(doc[f]) :
                                       doc[f][j] = query_object[f].val[i]

\* A filter on four fields, two of them with two values, has been built; some
\* documents satisfy it and some do not.
C13_Witness ==
    /\ QueryBuilt
    /\ RequestedFields = FilterFields
    /\ Len(query_object[StrArchitecture].val) = 2
    /\ \E toks \in {ODataTokens(odata_filter.val)} :
          /\ \E doc \in FilterDocs : Satisfies(doc, toks)
          /\ \E doc \in FilterDocs : ~Satisfies(doc, toks)

\* C14: when the phrase is empty (contains-str absent, or empty once
\* sanitised) the backend is asked the match-all text "*" in the simple
\* syntax, with no clause of any term, and the request goes on to
\* consolidate, rank and paginate.
C14_EmptyPhraseMatchesAll ==
    (QueryBuilt /\ contains_str = <<>>) =>
        /\ search_text = <<"*">>
        /\ query_type = "simple"
        /\ (pc = "done" /\ ~raised) =>
              /\ response.status = 200
              /\ response.body.totalCount = Cardinality(IdsOf(index))
              /\ LET rest == response.body.totalCount - (page - 1) * page_size
                 IN Len(response.body.documents)
                       = IF rest < 0 THEN 0 ELSE Min(page_size, rest)

\* A phrase that sanitisation empties, answered with the backend's documents.
C14_Witness ==
    /\ Answered200
    /\ "contains-str" \in DOMAIN params /\ params["contains-str"] = <<"$">>
    /\ search_text = <<"*">>
    /\ response.body.totalCount = 2
    /\ Len(response.body.documents) = 1

\* The sort tokens that name a policy.
KnownSorts == {"date", "name", "id_asc", "id_desc", "version"}

\* The request names no known policy: sort is absent, empty or unknown.
UnknownSort == "sort" \notin DOMAIN params \/ params["sort"] \notin KnownSorts

\* The scores never rise along the sequence.
ScoreDescending(docs) ==
    \A i, j \in 1..Len(docs) : i < j => Get(docs[i], "score", 0) >= Get(docs[j], "score", 0)

\* C18: a sort token outside date, name, id_asc, id_desc, version, or none,
\* never makes the request fail: the results are ranked by the default
\* policy, by score descending.
C18_UnknownSortIsDefault ==
    UnknownSort =>
        /\ response.status # 400
        /\ pc \in {"paginate", "done"} => ScoreDescending(sorted_resources)
        /\ (pc = "done" /\ ~raised) =>
              /\ response.status = 200
              /\ ScoreDescending(response.body.documents)

\* An unknown token, and results that the backend gave in rising score.
C18_Witness ==
    /\ Answered200
    /\ "sort" \in DOMAIN params /\ params["sort"] = "bogus"
    /\ Len(index) = 2 /\ index[1]["@search.score"] < index[2]["@search.score"]
    /\ Len(response.body.documents) = 2
    /\ response.body.documents[1].score > response.body.documents[2].score

\* The handler is about to query the backend with what it has built.
AtBackendCall == pc = "search"

\* The blank-separated pieces of a query text, in order.
Pieces(text) ==
    LET Blank(i) == i < 1 \/ i > Len(text) \/ text[i] = " "
        starts == {i \in 1..Len(text) : ~Blank(i) /\ Blank(i - 1)}
        EndOf(i) == CHOOSE k \in i..Len(text) :
                        Blank(k + 1) /\ \A m \in i..k : ~Blank(m)
    IN [n \in 1..Cardinality(starts) |->
           LET i == CHOOSE i \in starts : Cardinality({j \in starts : j < i}) = n - 1
           IN SubSeq(text, i, EndOf(i))]

\* The pieces cut at those equal to the operator: the clauses of a text at
\* AND, the matches of a clause at OR.
CutAt(pieces, operator) == IF pieces = <<>> THEN <<>> ELSE Split(pieces, operator)

\* The matches of a clause, without the parentheses around the clause; the
\* empty set for pieces that are no parenthesised disjunction.
MatchesOf(clause) ==
    LET parts == CutAt(clause, <<"O", "R">>)
        n == Len(parts)
        first == parts[1][1]
        last == parts[n][1]
        Bare(i) == IF i = 1 THEN Tail(first)
                   ELSE IF i = n THEN SubSeq(last, 1, Len(last) - 1)
                   ELSE parts[i][1]
    IN IF /\ n >= 2
          /\ \A i \in 1..n : Len(parts[i]) = 1
          /\ first # <<>> /\ first[1] = "("
          /\ last # <<>> /\ last[Len(last)] = ")"
       THEN [i \in 1..n |-> Bare(i)]
       ELSE <<>>

Phrase(e) == <<"\"">> \o e \o <<"\"">>
PrefixOf(e) == e \o <<"*">>
OnField(field, match) == field \o <<":">> \o match
Boosted(match) == match \o <<"^", "1", "0">>

TextFields == {StrDescription, StrCategory, StrArchitecture, StrTags}

\* One exact-phrase match and one prefix match on each of the five fields,
\* those on id boosted by 10.
FieldMatches(e) ==
    {Boosted(OnField(StrId, Phrase(e))), Boosted(OnField(StrId, PrefixOf(e)))}
    \cup {OnField(f, Phrase(e)) : f \in TextFields}
    \cup {OnField(f, PrefixOf(e)) : f \in TextFields}

\* The matches on no field in particular.
UnfieldedMatches(e) == {Phrase(e), PrefixOf(e)}

\* The matches expected in the clause of an escaped term.
ExpectedMatches(e, unfielded) ==
    FieldMatches(e) \cup (IF unfielded THEN UnfieldedMatches(e) ELSE {})

\* The query text is the conjunction, in the order of the phrase, of one
\* clause per term, the clause of a term being the disjunction of exactly the
\* matches expected for the escaped term, each once.
TextIsConjunctionOf(unfielded) ==
    LET terms == Words(contains_str)
    IN \A clauses \in {CutAt(Pieces(search_text), <<"A", "N", "D">>)} :
          /\ Len(clauses) = Len(terms)
          /\ \A k \in 1..Len(terms) :
                \A matches \in {MatchesOf(clauses[k])} :
                   /\ {matches[i] : i \in 1..Len(matches)}
                          = ExpectedMatches(escape_lucene_query(terms[k]), unfielded)
                   /\ Len(matches)
                          = Cardinality(ExpectedMatches(escape_lucene_query(terms[k]), unfielded))

\* C19 as stated: for a non-empty phrase the query text is the conjunction,
\* in phrase order, of one clause per blank-separated term, each clause the
\* disjunction of exactly one exact-phrase and one prefix match on each of
\* id, description, category, architecture and tags, the id matches boosted
\* by 10 and no other.
C19_Original ==
    (AtBackendCall /\ contains_str # <<>>) =>
        /\ query_type = "full"
        /\ TextIsConjunctionOf(FALSE)

\* C19 amended: each clause holds, besides the ten matches on the five
\* fields, one exact-phrase and one prefix match on no field in particular,
\* neither boosted.
C19_ClausePerTermWithUnfieldedMatches ==
    (AtBackendCall /\ contains_str # <<>>) =>
        /\ query_type = "full"
        /\ TextIsConjunctionOf(TRUE)

\* A phrase of two terms, one with characters that are escaped.
C19_Witness ==
    /\ AtBackendCall
    /\ Words(contains_str) = <<<<"x", "\"", "y">>, <<"c", ":", "\\", "d">>>>
    /\ Len(CutAt(Pieces(search_text), <<"A", "N", "D">>)) = 2

\* The characters the query syntax reserves.
ReservedChars ==
    {"\\", "+", "-", "&", "|", "!", "(", ")", "{", "}", "[", "]", "^", "~", "*",
     "?", ":", "/", "\""}

\* Each reserved character after one backslash, every other character as is.
RECURSIVE EachEscapedOnce(_)
EachEscapedOnce(s) ==
    IF s = <<>> THEN <<>>
    ELSE (IF Head(s) \in ReservedChars THEN <<"\\", Head(s)>> ELSE <<Head(s)>>)
         \o EachEscapedOnce(Tail(s))

\* The backslash before each escaped character removed: a backslash is
\* dropped and the character after it kept.
RECURSIVE Unescape(_)
Unescape(s) ==
    IF s = <<>> THEN <<>>
    ELSE IF Head(s) = "\\" /\ Len(s) >= 2 THEN <<s[2]>> \o Unescape(Tail(Tail(s)))
    ELSE <<Head(s)>> \o Unescape(Tail(s))

\* C20: escape_lucene_query returns its input with each reserved character
\* after exactly one backslash and the other characters unchanged, in order;
\* no backslash it inserted is escaped again, and removing the backslash
\* before each escaped character gives the input back.
C20_EscapeEachReservedOnce ==
    /\ escaped_term = EachEscapedOnce(term)
    /\ Unescape(escaped_term) = term

\* A backslash followed by another reserved character has been escaped.
C20_Witness ==
    /\ term = <<"\\", "+">>
    /\ escaped_term = <<"\\", "\\", "\\", "+">>

\* The fields the backend adds to a result.
BackendFields == {"@search.score", "@search.highlights", "@search.reranker_score"}

\* C17 as stated: a document in a 200 response holds no field of the
\* backend, nor any other score annotation that the backend or the pipeline
\* added, and holds database = "gem5-vision".
C17_Original ==
    Answered200 =>
        \A i \in 1..Len(response.body.documents) :
           /\ DOMAIN response.body.documents[i] \cap (BackendFields \cup {"score"}) = {}
           /\ response.body.documents[i].database = "gem5-vision"

\* C17 amended: a document in a 200 response holds none of @search.score,
\* @search.highlights and @search.reranker_score, and holds database =
\* "gem5-vision"; the score field the pipeline wrote stays in it.
C17_BackendFieldsRemovedScoreKept ==
    Answered200 =>
        \A i \in 1..Len(response.body.documents) :
           /\ DOMAIN response.body.documents[i] \cap BackendFields = {}
           /\ response.body.documents[i].database = "gem5-vision"
           /\ "score" \in DOMAIN response.body.documents[i]

\* A result that came with the three fields of the backend is in the
\* response.
C17_Witness ==
    /\ Answered200
    /\ \E i \in 1..Len(index) : BackendFields \subseteq DOMAIN index[i]
    /\ \E i \in 1..Len(response.body.documents) :
          /\ response.body.documents[i].id = <<"c">>
          /\ response.body.documents[i].score = 7

\* The listing was answered with resources.
Listed == pc = "done" /\ response.status = 200 /\ prefixes # <<>>

\* The request asks for the latest version only.
LatestOnly ==
    "latest-version" \in DOMAIN params /\ params["latest-version"] = <<"t", "r", "u", "e">>

\* C15: a listing asked with latest-version=true holds at most one entry per
\* id, the one with the highest resource_version among the entries of that
\* id that the same request without latest-version returns.
C15_LatestVersionOnePerId ==
    (Listed /\ LatestOnly) =>
        /\ \A i, j \in 1..Len(response.body) :
               response.body[i].id = response.body[j].id => i = j
        /\ \A i \in 1..Len(response.body) :
               \A k \in 1..Len(Find(collection, prefixes)) :
                  Find(collection, prefixes)[k].id = response.body[i].id
                  => ~TupleLess(parse_version(response.body[i].resource_version),
                                parse_version(Find(collection, prefixes)[k].resource_version))

\* The (id, resource_version) pairs of a listing.
PairsOf(body) == {<<body[i].id, body[i].resource_version>> : i \in 1..Len(body)}

ElementsOf(seq) == {seq[i] : i \in 1..Len(seq)}

\* p is the version itself or what precedes one of its dots.
DottedPrefix(p, version) ==
    /\ Len(p) <= Len(version)
    /\ p = SubSeq(version, 1, Len(p))
    /\ Len(p) = Len(version) \/ version[Len(p) + 1] = "."

\* Every queried prefix has two components or more and is a dotted prefix of
\* the version asked for.
PrefixesAreDottedPrefixes ==
    \A i \in 1..Len(prefixes) :
       /\ Len(Split(prefixes[i], ".")) >= 2
       /\ DottedPrefix(prefixes[i], Strip(params["gem5-version"]))

\* What was queried and returned for the version is queried and returned
\* for its extension.
ExtensionCoversEarlier ==
    /\ response.status = 200
    /\ \A k \in 1..Len(history) :
          /\ ElementsOf(history[k].prefixes) \subseteq ElementsOf(prefixes)
          /\ PairsOf(history[k].body) \subseteq PairsOf(response.body)

\* C16 as stated: the prefixes queried for a version of two components or
\* more are among those queried for any dotted extension of it, so what is
\* returned for the version is returned for the extension over the same
\* store; every queried prefix has two components or more and is a dotted
\* prefix of the version asked for.
C16_Original ==
    /\ PrefixesAreDottedPrefixes
    /\ (pc = "done" /\ ~raised /\ history # <<>>) => ExtensionCoversEarlier

\* C16 amended: the same for the dotted extensions of at most 20
\* characters; a longer extension is rejected with status 400.
C16_ExtensionWithinLengthCoversEarlier ==
    /\ PrefixesAreDottedPrefixes
    /\ (pc = "done" /\ ~raised /\ history # <<>>) =>
          IF Len(Strip(params["gem5-version"])) <= MaxVersionLen
          THEN ExtensionCoversEarlier
          ELSE response.status = 400

\* The extension of a version returns a resource more than the version did.
C16_Witness ==
    /\ Listed
    /\ Len(history) = 1
    /\ Len(history[1].body) = 1
    /\ Len(response.body) = 2
    /\ Len(prefixes) = 2

\* The request has been ranked: sorted_resources holds the output of
\* apply_sorting for unique_resources.
Ranked == pc = "paginate" \/ Answered200

\* The policy apply_sorting was called with.
PolicyGiven == Get(query_object, KeySort, PyStr("default"))

\* The two documents have the same key under the policy.
SameKey(policy, a, b) ==
    IF IsStr(policy, "date") THEN DateKey(a) = DateKey(b)
    ELSE IF IsStr(policy, "name") \/ IsStr(policy, "id_asc") \/ IsStr(policy, "id_desc")
    THEN IdKey(a) = IdKey(b)
    ELSE IF IsStr(policy, "version") THEN VersionKey(a) = VersionKey(b)
    ELSE ScoreKey(a) = ScoreKey(b)

\* The place of a document in a sequence that holds it once.
PlaceIn(docs, d) == CHOOSE i \in 1..Len(docs) : docs[i] = d

\* C21: apply_sorting is stable under every policy, the descending ones
\* included: its output is a permutation of its input, and two documents
\* with equal sort keys keep the relative order they had in the input.
C21_SortIsStablePermutation ==
    Ranked =>
        /\ Len(sorted_resources) = Len(unique_resources)
        /\ \A i \in 1..Len(unique_resources) :
               \E j \in 1..Len(sorted_resources) : sorted_resources[j] = unique_resources[i]
        /\ \A i, j \in 1..Len(unique_resources) :
               (i < j /\ SameKey(PolicyGiven, unique_resources[i], unique_resources[j]))
               => PlaceIn(sorted_resources, unique_resources[i])
                     < PlaceIn(sorted_resources, unique_resources[j])

\* Under a descending policy two documents of equal key stay in their order
\* behind a document that came after them.
C21_Witness ==
    /\ Ranked
    /\ IsStr(PolicyGiven, "id_desc")
    /\ Len(unique_resources) = 3
    /\ [i \in 1..3 |-> unique_resources[i].id] = <<<<"B">>, <<"b">>, <<"d">>>>
    /\ [i \in 1..3 |-> sorted_resources[i].id] = <<<<"d">>, <<"B">>, <<"b">>>>

\* The candidates of an id whose parsed version no candidate of the id
\* exceeds.
LatestOf(id) ==
    {k \in WithId(index, id) :
        \A m \in WithId(index, id) : ~TupleLess(ParsedVersion(index[k]), ParsedVersion(index[m]))}

\* The first of them in the candidate sequence.
FirstLatestOf(id) == CHOOSE k \in LatestOf(id) : \A m \in LatestOf(id) : k <= m

\* C22: the representative of an id is replaced only by a candidate whose
\* parsed version strictly exceeds it: among the candidates of the id with
\* the greatest parsed version, the first in the candidate sequence is the
\* representative, so the order of two such candidates decides which
\* document is returned.
C22_FirstSeenWinsOnTies ==
    Consolidated =>
       \A i \in DOMAIN unique_resources :
          Pop(unique_resources[i], "score") = index[FirstLatestOf(unique_resources[i].id)]

\* Two candidates of one id with equal parsed versions and different
\* version strings: the first is the representative.
C22_Witness ==
    /\ Consolidated
    /\ Len(index) = 2
    /\ index[1] = Doc(<<"R">>, <<"b", "a", "d">>, 7)
    /\ index[2] = Doc(<<"R">>, <<"0", ".", "0", ".", "0">>, 3)
    /\ Len(unique_resources) = 1
    /\ unique_resources[1].resource_version = <<"b", "a", "d">>

\* C23: malformed documents never fail the request.  With candidates that
\* lack an id, lack a resource_version or carry one that does not parse or
\* is no str, or lack date, gem5_versions or score, the consolidation and
\* the ranking complete under every policy: unless the backend itself
\* failed the response is 200, and it holds the documents with an id only.
C23_MalformedDocumentsNeverFail ==
    (pc = "done" /\ ~raised) =>
        /\ response.status = 200
        /\ response.body.totalCount = Cardinality(IdsOf(index))
        /\ \A i \in 1..Len(response.body.documents) :
               "id" \in DOMAIN response.body.documents[i]

\* Ranked by date: a document with no id, one with a resource_version that
\* is no str and no date, and a well-formed one.
C23_Witness ==
    /\ Answered200
    /\ "sort" \in DOMAIN params /\ params["sort"] = "date"
    /\ Len(index) = 3
    /\ index[1] = NoIdDoc
    /\ index[2] = [id |-> <<"c">>, resource_version |-> <<"NoneType">>]
    /\ "date" \in DOMAIN index[3]
    /\ response.body.totalCount = 2

\* The policy the sort parameter asks for.
PolicyAsked ==
    IF "sort" \in DOMAIN params /\ params["sort"] \in KnownSorts
    THEN PyStr(params["sort"])
    ELSE PyStr("default")

\* C24: the policy a request is ranked by depends on its sort parameter
\* only: whatever must-include holds, a clause whose field is "sort" or
\* "query" included, the results are ranked as the sort parameter asks and
\* the query text is that of the phrase (here "*", the requests having none).
C24_SortParameterAloneDecides ==
    Ranked =>
        /\ sorted_resources = apply_sorting(unique_resources, PolicyAsked)
        /\ search_text = <<"*">>

\* C25: the query text sent to the backend is never empty: it is "*" or a
\* conjunction of at least one term clause, and a phrase that sanitization
\* leaves with blanks only is handled as the empty phrase ("*", simple).
C25_QueryTextNeverEmpty ==
    AtBackendCall =>
        /\ search_text # <<>>
        /\ \/ search_text = <<"*">>
           \/ /\ Words(contains_str) # <<>>
              /\ search_text = SearchText(contains_str)
        /\ Words(contains_str) = <<>> =>
              (search_text = <<"*">> /\ query_type = "simple")

\* The values the query object asks of the four filter fields, in the order
\* build_odata_filter reads the fields.
FilterValues ==
    ValuesOf(query_object, StrCategory) \o ValuesOf(query_object, StrArchitecture)
    \o ValuesOf(query_object, StrTags) \o ValuesOf(query_object, StrGem5Versions)

\* The quoted literals of a filter expression, in order.
LiteralsOf(toks) ==
    LET lits == SelectSeq(toks, LAMBDA t : t.t = "lit")
    IN [i \in 1..Len(lits) |-> lits[i].v]

\* C26: every value that reaches the filter expression is a sanitized id: 1 to
\* 100 characters, each a word character, '-' or '.', so never a quote, a
\* blank or a parenthesis; the expression is well formed and its quoted
\* literals are exactly the values, no value closing its literal.
C26_FilterValuesAreSanitizedIds ==
    (AtBackendCall /\ odata_filter # None) =>
        /\ \A i \in 1..Len(FilterValues) :
              /\ Len(FilterValues[i]) \in 1..MaxIdLen
              /\ \A k \in 1..Len(FilterValues[i]) :
                    /\ FilterValues[i][k] \notin {"'", " ", "(", ")"}
                    /\ IsWordChar(FilterValues[i][k]) \/ FilterValues[i][k] \in {"-", "."}
        /\ \A toks \in {ODataTokens(odata_filter.val)} :
              /\ WellFormed(toks)
              /\ LiteralsOf(toks) = FilterValues

\* A value of the greatest length allowed is in the filter sent.
C26_Witness ==
    /\ AtBackendCall
    /\ odata_filter # None
    /\ FilterValues = <<Repeat("a", MaxIdLen)>>
    /\ LiteralsOf(ODataTokens(odata_filter.val)) = FilterValues

\* The field names of the non-empty must-include clauses of the request.
ClauseFields ==
    LET groups == Split(must_include, ";")
    IN {Split(groups[i], ",")[1] : i \in {k \in 1..Len(groups) : groups[k] # <<>>}}

\* The groups build_odata_filter joins by and.
FilterGroups ==
    ScalarFilter(query_object, StrCategory) \o ScalarFilter(query_object, StrArchitecture)
    \o CollectionFilter(query_object, StrTags, "t")
    \o CollectionFilter(query_object, StrGem5Versions, "v")

\* C27: every accepted must-include clause restricts the results: when the
\* backend is called for a request with a non-empty clause, the filter is not
\* None and has one group per distinct clause field, each field being one of
\* category, architecture, tags and gem5_versions.
C27_EveryClauseFilters ==
    (AtBackendCall /\ must_include # <<>> /\ ClauseFields # {}) =>
        /\ odata_filter # None
        /\ ClauseFields \subseteq FilterFields
        /\ Len(FilterGroups) = Cardinality(ClauseFields)

=============================================================================
